---- MODULE Spec2Model ----
(***************************************************************************)
(* A state-machine model of ennona, the rust-cv point-cloud viewer: the    *)
(* winit event loop of main.rs, the camera and its controller (camera.rs), *)
(* the import dispatch (import.rs) and the point/face renderers.           *)
(***************************************************************************)
EXTENDS Integers, Sequences, FiniteSets, TLC

(***************************************************************************)
(* f32 arithmetic.  A value is [k, s, m, e]: kind "fin" | "inf" | "nan",   *)
(* sign s (1 = negative), and for a finite value the magnitude m * 2^e     *)
(* with 2^23 <= m < 2^24 (m = 0, e = 0 for zero).  Every operation rounds  *)
(* to nearest, ties to even, as IEEE 754 binary32 does.  The exponent      *)
(* range is not modelled: within the bounds no value comes near f32's      *)
(* largest or smallest normal number.                                      *)
(***************************************************************************)
Pow2(n) == 2^n

RECURSIVE BitLen(_)
BitLen(x) == IF x = 0 THEN 0 ELSE 1 + BitLen(x \div 2)

F32Zero == [k |-> "fin", s |-> 0, m |-> 0, e |-> 0]
F32NaN == [k |-> "nan", s |-> 0, m |-> 0, e |-> 0]
F32Inf(s) == [k |-> "inf", s |-> s, m |-> 0, e |-> 0]

F32IsZero(a) == a.k = "fin" /\ a.m = 0

\* The f32 nearest to (-1)^s * (M + f) * 2^E, where 0 <= f < 1 and f > 0 iff sticky.
F32Round(s, M, E, sticky) ==
    IF M = 0 THEN [k |-> "fin", s |-> s, m |-> 0, e |-> 0]
    ELSE LET L == BitLen(M) IN
         IF L <= 24
         THEN [k |-> "fin", s |-> s, m |-> M * Pow2(24 - L), e |-> E - (24 - L)]
         ELSE LET sh   == L - 24
                  q    == M \div Pow2(sh)
                  rem  == M % Pow2(sh)
                  half == Pow2(sh - 1)
                  up   == \/ rem > half
                          \/ rem = half /\ (sticky \/ q % 2 = 1)
                  r    == IF up THEN q + 1 ELSE q
              IN  IF r = Pow2(24)
                  THEN [k |-> "fin", s |-> s, m |-> Pow2(23), e |-> E + sh + 1]
                  ELSE [k |-> "fin", s |-> s, m |-> r, e |-> E + sh]

F32Neg(a) == [a EXCEPT !.s = 1 - a.s]

F32Abs(a) == [a EXCEPT !.s = 0]

\* u32 / small integer to f32 (`as f32`).
F32FromInt(n) == IF n < 0 THEN F32Round(1, -n, 0, FALSE) ELSE F32Round(0, n, 0, FALSE)

\* a * 2^n, exact.
F32Scale(a, n) == IF a.k = "fin" /\ a.m # 0 THEN [a EXCEPT !.e = a.e + n] ELSE a

\* |a| < |b| for finite a, b.
F32MagLt(a, b) ==
    IF a.m = 0 THEN b.m # 0
    ELSE IF b.m = 0 THEN FALSE
    ELSE a.e < b.e \/ (a.e = b.e /\ a.m < b.m)

\* IEEE equality: NaN equals nothing, -0 = +0.
F32Eq(a, b) ==
    /\ a.k # "nan" /\ b.k # "nan"
    /\ a.k = b.k
    /\ IF a.k = "inf" THEN a.s = b.s
       ELSE (a.m = 0 /\ b.m = 0) \/ (a.s = b.s /\ a.m = b.m /\ a.e = b.e)

\* IEEE a < b.
F32Lt(a, b) ==
    /\ a.k # "nan" /\ b.k # "nan"
    /\ ~F32Eq(a, b)
    /\ IF a.k = "inf" THEN a.s = 1
       ELSE IF b.k = "inf" THEN b.s = 0
       ELSE IF a.s # b.s THEN a.s = 1
       ELSE IF a.s = 0 THEN F32MagLt(a, b) ELSE F32MagLt(b, a)

F32Mul(a, b) ==
    LET s == (a.s + b.s) % 2 IN
    IF a.k = "nan" \/ b.k = "nan" THEN F32NaN
    ELSE IF a.k = "inf" \/ b.k = "inf"
         THEN IF F32IsZero(a) \/ F32IsZero(b) THEN F32NaN ELSE F32Inf(s)
    ELSE IF a.m = 0 \/ b.m = 0 THEN [k |-> "fin", s |-> s, m |-> 0, e |-> 0]
    ELSE LET a1    == a.m \div 4096
             a0    == a.m % 4096
             b1    == b.m \div 4096
             b0    == b.m % 4096
             mid   == a1 * b0 + a0 * b1
             low24 == (mid % 4096) * 4096 + a0 * b0
             low   == low24 % Pow2(24)
             hi    == a1 * b1 + mid \div 4096 + low24 \div Pow2(24)
         IN  F32Round(s, hi * 64 + low \div Pow2(18), a.e + b.e + 18,
                      low % Pow2(18) # 0)

F32Add(a, b) ==
    IF a.k = "nan" \/ b.k = "nan" THEN F32NaN
    ELSE IF a.k = "inf"
         THEN IF b.k = "inf" /\ a.s # b.s THEN F32NaN ELSE a
    ELSE IF b.k = "inf" THEN b
    ELSE IF a.m = 0 THEN (IF b.m = 0 /\ a.s # b.s THEN F32Zero ELSE b)
    ELSE IF b.m = 0 THEN a
    ELSE LET big    == IF F32MagLt(a, b) THEN b ELSE a
             small  == IF F32MagLt(a, b) THEN a ELSE b
             d      == big.e - small.e
             Mb     == big.m * 8
             Ms     == IF d >= 27 THEN 0 ELSE (small.m * 8) \div Pow2(d)
             sticky == IF d >= 27 THEN TRUE ELSE (small.m * 8) % Pow2(d) # 0
         IN  IF big.s = small.s
             THEN F32Round(big.s, Mb + Ms, big.e - 3, sticky)
             ELSE IF Mb = Ms /\ ~sticky THEN F32Zero
             ELSE F32Round(big.s, Mb - Ms - (IF sticky THEN 1 ELSE 0),
                           big.e - 3, sticky)

F32Sub(a, b) == F32Add(a, F32Neg(b))

\* Long division of the mantissas, DivBits quotient bits after the first.
RECURSIVE DivSteps(_, _, _, _)
DivSteps(q, r, mb, n) ==
    IF n = 0 THEN <<q, r>>
    ELSE IF 2 * r >= mb THEN DivSteps(2 * q + 1, 2 * r - mb, mb, n - 1)
    ELSE DivSteps(2 * q, 2 * r, mb, n - 1)

F32Div(a, b) ==
    LET s == (a.s + b.s) % 2 IN
    IF a.k = "nan" \/ b.k = "nan" THEN F32NaN
    ELSE IF a.k = "inf" THEN (IF b.k = "inf" THEN F32NaN ELSE F32Inf(s))
    ELSE IF b.k = "inf" THEN [k |-> "fin", s |-> s, m |-> 0, e |-> 0]
    ELSE IF b.m = 0 THEN (IF a.m = 0 THEN F32NaN ELSE F32Inf(s))
    ELSE IF a.m = 0 THEN [k |-> "fin", s |-> s, m |-> 0, e |-> 0]
    ELSE LET qr == DivSteps(a.m \div b.m, a.m % b.m, b.m, 26)
         IN  F32Round(s, qr[1], a.e - b.e - 26, qr[2] # 0)

\* Square root by the digit-by-digit method.
RECURSIVE SqrtSteps(_, _, _)
\* k more result bits below an integer root: root^2 + rem is the radicand so far.
SqrtSteps(root, rem, k) ==
    IF k = 0 THEN <<root, rem>>
    ELSE LET r4 == 4 * rem
             t  == 4 * root + 1
         IN  IF r4 >= t THEN SqrtSteps(2 * root + 1, r4 - t, k - 1)
             ELSE SqrtSteps(2 * root, r4, k - 1)

RECURSIVE ISqrt(_, _)
\* <<floor(sqrt(x)), x - floor(sqrt(x))^2>> for 0 <= x < 4^bit.
ISqrt(x, bit) ==
    IF bit = 0 THEN <<0, x>>
    ELSE LET lo == ISqrt(x \div 4, bit - 1)
             r  == 2 * lo[1]
             rm == 4 * lo[2] + (x % 4)
         IN  IF rm >= 2 * r + 1 THEN <<r + 1, rm - (2 * r + 1)>> ELSE <<r, rm>>

F32Sqrt(a) ==
    IF a.k = "nan" THEN F32NaN
    ELSE IF a.k = "fin" /\ a.m = 0 THEN a
    ELSE IF a.s = 1 THEN F32NaN
    ELSE IF a.k = "inf" THEN a
    ELSE LET odd == a.e % 2 # 0
             M   == IF odd THEN 2 * a.m ELSE a.m
             E   == IF odd THEN a.e - 1 ELSE a.e
             r0  == ISqrt(M, 13)
             qr  == SqrtSteps(r0[1], r0[2], 14)
         IN  F32Round(0, qr[1], (E \div 2) - 14, qr[2] # 0)

\* A decimal literal num/den (both exact in f32), rounded once as the compiler does.
F32Lit(num, den) == F32Div(F32FromInt(num), F32FromInt(den))

(***************************************************************************)
(* import.rs: the import dispatch and the geometry statistics.             *)
(* A file is [path, exists, body]; path = [name, ext] with ext = "" when   *)
(* the path has no extension.  body.kind is what the bytes really are      *)
(* ("ply", "image" or "other"), whatever the extension says; body.ok tells *)
(* how far a parser gets ("ok", "bad_header", "bad_payload", or            *)
(* "bad_property": an element property the PropertyAccess impls do not     *)
(* list).  Vertex positions are small integers, exact in f32 and f64.      *)
(***************************************************************************)
Vertex(x, y, z) == [position |-> <<x, y, z>>, color |-> <<0, 0, 0>>]

Extension(path) == IF path.ext = "" THEN "no_extension" ELSE path.ext

ImportErr(msg) == [tag |-> "Err", msg |-> msg]

ImportPanic(at) == [tag |-> "Panic", at |-> at]

\* a variant that returns the index in the file instead of the slot
get_or_insert_vertex_file_index(st, index, all_vertices) ==
    IF st.panic THEN st
    ELSE IF index \in DOMAIN st.map THEN [st EXCEPT !.ret = index]
    ELSE IF index < 0 \/ index >= Len(all_vertices) THEN [st EXCEPT !.panic = TRUE]
    ELSE [st EXCEPT !.map = (index :> Len(st.face_vertices)) @@ st.map,
                    !.face_vertices = Append(st.face_vertices, all_vertices[index + 1]),
                    !.ret = index]

\* The closure state: the index map, the face vertices and the value it returns.
get_or_insert_vertex(st, index, all_vertices) ==
    IF st.panic THEN st
    ELSE IF index \in DOMAIN st.map THEN [st EXCEPT !.ret = st.map[index]]
    ELSE IF index < 0 \/ index >= Len(all_vertices) THEN [st EXCEPT !.panic = TRUE]
    ELSE [st EXCEPT !.map = (index :> Len(st.face_vertices)) @@ st.map,
                    !.face_vertices = Append(st.face_vertices, all_vertices[index + 1]),
                    !.ret = Len(st.face_vertices)]

\* face_iter run to its end: the face-vertex slot of every index of the face.
RECURSIVE FaceSlots(_, _, _, _)
FaceSlots(st, vertex_index, all_vertices, slots) ==
    IF vertex_index = <<>> THEN [st |-> st, slots |-> slots]
    ELSE LET st2 == get_or_insert_vertex(st, Head(vertex_index), all_vertices)
         IN  FaceSlots(st2, Tail(vertex_index), all_vertices, Append(slots, st2.ret))

\* a variant that makes a strip: each triangle starts at the vertex before
RECURSIVE FanTriangles_strip(_, _)
FanTriangles_strip(slots, i) ==
    IF Len(slots) < 3 \/ i > Len(slots) - 1 THEN <<>>
    ELSE <<slots[i - 1], slots[i], slots[i + 1]>> \o FanTriangles_strip(slots, i + 1)

\* The triangles of one fan: (first, second, third) for each window of the rest.
RECURSIVE FanTriangles(_, _)
FanTriangles(slots, i) ==
    IF Len(slots) < 3 \/ i > Len(slots) - 1 THEN <<>>
    ELSE <<slots[1], slots[i], slots[i + 1]>> \o FanTriangles(slots, i + 1)

RECURSIVE Tesselate(_, _, _)
Tesselate(st, faces, all_vertices) ==
    IF faces = <<>> \/ st.panic THEN st
    ELSE LET fs  == FaceSlots(st, Head(faces), all_vertices, <<>>)
             st2 == [fs.st EXCEPT !.face_indices = @ \o FanTriangles(fs.slots, 2)]
         IN  Tesselate(st2, Tail(faces), all_vertices)

\* a variant that keeps every vertex of the file among the points
RECURSIVE PointVertices_unfiltered(_, _, _)
PointVertices_unfiltered(all_vertices, map, i) ==
    IF i > Len(all_vertices) THEN <<>>
    ELSE <<all_vertices[i]>> \o PointVertices_unfiltered(all_vertices, map, i + 1)

RECURSIVE PointVertices(_, _, _)
PointVertices(all_vertices, map, i) ==
    IF i > Len(all_vertices) THEN <<>>
    ELSE (IF (i - 1) \in DOMAIN map THEN <<>> ELSE <<all_vertices[i]>>)
         \o PointVertices(all_vertices, map, i + 1)

ImportPly(body) ==
    IF body.kind # "ply" \/ body.ok = "bad_header" THEN ImportErr(<<"ply parse error">>)
    ELSE IF body.ok = "bad_property" THEN ImportPanic("set_property")
    ELSE IF body.ok = "bad_payload" THEN ImportErr(<<"ply parse error">>)
    ELSE LET st0 == [map |-> <<>>, face_vertices |-> <<>>, face_indices |-> <<>>,
                     ret |-> 0, panic |-> FALSE]
             st  == Tesselate(st0, body.faces, body.vertices)
         IN  IF st.panic THEN ImportPanic("all_vertices[index]")
             ELSE [tag |-> "Ply",
                   ply |-> [point_vertices |-> PointVertices(body.vertices, st.map, 1),
                            face_vertices  |-> st.face_vertices,
                            face_indices   |-> st.face_indices]]

ImportImage(body) ==
    IF body.kind # "image" \/ body.ok # "ok" THEN ImportErr(<<"image decode error">>)
    ELSE [tag |-> "Image", img |-> [width |-> body.width, height |-> body.height]]

import(file) ==
    IF ~file.exists THEN ImportPanic("File::open(path).unwrap()")
    ELSE LET extension == Extension(file.path) IN
         CASE extension = "ply" -> ImportPly(file.body)
           [] extension \in {"png", "jpg", "jpeg"} -> ImportImage(file.body)
           [] OTHER -> ImportErr(<<"Unknown file extension", extension, file.path.name,
                                    file.path.ext>>)

RECURSIVE SumCoord(_, _)
SumCoord(vertices, c) ==
    IF vertices = <<>> THEN 0 ELSE Head(vertices).position[c] + SumCoord(Tail(vertices), c)

\* The f64 sums of integer coordinates are exact; the quotient is rounded to f32.
avg_vertex_position(vertices) ==
    [c \in 1..3 |-> F32Div(F32FromInt(SumCoord(vertices, c)), F32FromInt(Len(vertices)))]

\* nalgebra::distance: the norm of the difference.
distance(p, q) ==
    LET d  == [c \in 1..3 |-> F32Sub(q[c], p[c])]
        sq == [c \in 1..3 |-> F32Mul(d[c], d[c])]
    IN  F32Sqrt(F32Add(F32Add(sq[1], sq[2]), sq[3]))

RECURSIVE SumDistance(_, _, _)
SumDistance(avg, vertices, sum) ==
    IF vertices = <<>> THEN sum
    ELSE LET pos == [c \in 1..3 |-> F32FromInt(Head(vertices).position[c])]
         IN  SumDistance(avg, Tail(vertices), F32Add(sum, distance(avg, pos)))

avg_vertex_distance(avg, vertices) ==
    F32Div(SumDistance(avg, vertices, F32Zero), F32FromInt(Len(vertices)))

(***************************************************************************)
(* camera.rs.  The view matrix (an isometry: rotation R and translation t) *)
(* is [t, ops]: while no rotation has been applied R is the identity and   *)
(* t is the translation, computed in f32; ops lists, in order, the         *)
(* rotations and translations appended after the first rotation, whose     *)
(* trigonometry is not evaluated.                                          *)
(***************************************************************************)
Vec3(x, y, z) == <<F32FromInt(x), F32FromInt(y), F32FromInt(z)>>

VecNeg(v) == [c \in 1..3 |-> F32Neg(v[c])]

VecAdd(u, v) == [c \in 1..3 |-> F32Add(u[c], v[c])]

\* scalar * vector
VecScale(k, v) == [c \in 1..3 |-> F32Mul(v[c], k)]

IsometryIdentity == [t |-> Vec3(0, 0, 0), ops |-> <<>>]

\* a variant that sets the translation instead of adding to it
append_translation_mut_replaces(view, v) ==
    IF view.ops = <<>> THEN [view EXCEPT !.t = v]
    ELSE [view EXCEPT !.ops = Append(@, [op |-> "translate", v |-> v])]

append_translation_mut(view, v) ==
    IF view.ops = <<>> THEN [view EXCEPT !.t = VecAdd(view.t, v)]
    ELSE [view EXCEPT !.ops = Append(@, [op |-> "translate", v |-> v])]

\* Rotation3::from_euler_angles with one non-zero angle, appended.  A zero angle
\* gives the identity matrix, which leaves R and t as they are.
append_rotation_mut(view, axis, angle) ==
    IF F32IsZero(angle) THEN view
    ELSE [view EXCEPT !.ops = Append(@, [op |-> "rotate", axis |-> axis, angle |-> angle])]

\* a variant that leaves the aspect as it is
Camera_resize_keeps_aspect(camera, new_size) == camera

\* a variant that also puts the clip planes back to their first values
Camera_resize_resets_clip(camera, new_size) ==
    [camera EXCEPT !.aspect = F32Div(F32FromInt(new_size[1]), F32FromInt(new_size[2])),
                   !.znear = F32Lit(1, 10),
                   !.zfar = F32FromInt(100)]

Camera_resize(camera, new_size) ==
    [camera EXCEPT !.aspect = F32Div(F32FromInt(new_size[1]), F32FromInt(new_size[2]))]

\* a variant that appends the framing to the translation the camera has
set_camera_facing_appends(camera, target, dist) ==
    [camera EXCEPT
        !.zfar = F32Mul(F32FromInt(100), dist),
        !.znear = F32Div(dist, F32FromInt(100)),
        !.view_matrix = [t |-> VecAdd(camera.view_matrix.t,
                                      VecAdd(<<F32Zero, F32Zero, dist>>, VecNeg(target))),
                         ops |-> <<>>]]

set_camera_facing(camera, target, dist) ==
    [camera EXCEPT
        !.zfar = F32Mul(F32FromInt(100), dist),
        !.znear = F32Div(dist, F32FromInt(100)),
        !.view_matrix = [t |-> VecAdd(<<F32Zero, F32Zero, dist>>, VecNeg(target)),
                         ops |-> <<>>]]

CameraController_new(speed, sensitivity) ==
    [speed |-> speed, sensitivity |-> sensitivity,
     is_up_pressed |-> FALSE, is_down_pressed |-> FALSE,
     is_forward_pressed |-> FALSE, is_backward_pressed |-> FALSE,
     is_left_pressed |-> FALSE, is_right_pressed |-> FALSE,
     is_counter_clock_pressed |-> FALSE, is_clock_pressed |-> FALSE,
     mouse_captured |-> FALSE, scroll |-> F32Zero]

\* the keys process_keyboard maps to a held flag
MovementKeys ==
    {"Space", "LShift", "W", "Up", "Comma", "A", "Left", "S", "Down", "O", "D", "Right",
     "E", "R", "T"}

\* a variant that takes a release of W, Up or Comma for a press
process_keyboard_sticky_forward(cc, keycode, is_pressed, win) ==
    LET set(c) == [cc |-> c, win |-> win, handled |-> TRUE] IN
    CASE keycode = "Space" -> set([cc EXCEPT !.is_up_pressed = is_pressed])
      [] keycode = "LShift" -> set([cc EXCEPT !.is_down_pressed = is_pressed])
      [] keycode \in {"W", "Up", "Comma"} -> set([cc EXCEPT !.is_forward_pressed = TRUE])
      [] keycode \in {"A", "Left"} -> set([cc EXCEPT !.is_left_pressed = is_pressed])
      [] keycode \in {"S", "Down", "O"} -> set([cc EXCEPT !.is_backward_pressed = is_pressed])
      [] keycode \in {"D", "Right", "E"} -> set([cc EXCEPT !.is_right_pressed = is_pressed])
      [] keycode = "R" -> set([cc EXCEPT !.is_counter_clock_pressed = is_pressed])
      [] keycode = "T" -> set([cc EXCEPT !.is_clock_pressed = is_pressed])
      [] keycode = "Escape" ->
            IF is_pressed
            THEN [cc |-> [cc EXCEPT !.mouse_captured = ~cc.mouse_captured],
                  win |-> [win EXCEPT
                              !.cursor_grab = IF win.grab_ok THEN ~cc.mouse_captured ELSE @,
                              !.cursor_visible = cc.mouse_captured],
                  handled |-> TRUE]
            ELSE set(cc)
      [] OTHER -> [cc |-> cc, win |-> win, handled |-> FALSE]

\* The controller after the key event, the cursor state of the window after it
\* and the value returned.  win is [cursor_grab, cursor_visible, grab_ok]:
\* grab_ok is whether the window system carries out set_cursor_grab, whose
\* result is dropped.
process_keyboard(cc, keycode, is_pressed, win) ==
    LET set(c) == [cc |-> c, win |-> win, handled |-> TRUE] IN
    CASE keycode = "Space" -> set([cc EXCEPT !.is_up_pressed = is_pressed])
      [] keycode = "LShift" -> set([cc EXCEPT !.is_down_pressed = is_pressed])
      [] keycode \in {"W", "Up", "Comma"} -> set([cc EXCEPT !.is_forward_pressed = is_pressed])
      [] keycode \in {"A", "Left"} -> set([cc EXCEPT !.is_left_pressed = is_pressed])
      [] keycode \in {"S", "Down", "O"} -> set([cc EXCEPT !.is_backward_pressed = is_pressed])
      [] keycode \in {"D", "Right", "E"} -> set([cc EXCEPT !.is_right_pressed = is_pressed])
      [] keycode = "R" -> set([cc EXCEPT !.is_counter_clock_pressed = is_pressed])
      [] keycode = "T" -> set([cc EXCEPT !.is_clock_pressed = is_pressed])
      [] keycode = "Escape" ->
            IF is_pressed
            THEN [cc |-> [cc EXCEPT !.mouse_captured = ~cc.mouse_captured],
                  win |-> [win EXCEPT
                              !.cursor_grab = IF win.grab_ok THEN ~cc.mouse_captured ELSE @,
                              !.cursor_visible = cc.mouse_captured],
                  handled |-> TRUE]
            ELSE set(cc)
      [] OTHER -> [cc |-> cc, win |-> win, handled |-> FALSE]

\* a variant that lets an infinite delta through
is_normal_accepts_infinite(d) == d.k = "inf" \/ (d.k = "fin" /\ d.m # 0)

\* f64::is_normal: neither zero, infinite nor NaN (no subnormal delta is modelled).
is_normal(d) == d.k = "fin" /\ d.m # 0

\* a variant that applies the horizontal rotation a second time
process_mouse_twice(cc, camera, dx, dy) ==
    LET turn(view) == append_rotation_mut(view, "y", F32Mul(F32Neg(cc.sensitivity), dx))
        v1 == IF is_normal(dx) THEN turn(turn(camera.view_matrix)) ELSE camera.view_matrix
        v2 == IF is_normal(dy)
              THEN append_rotation_mut(v1, "x", F32Mul(cc.sensitivity, dy))
              ELSE v1
    IN  [camera EXCEPT !.view_matrix = v2]

process_mouse(cc, camera, dx, dy) ==
    LET v1 == IF is_normal(dx)
              THEN append_rotation_mut(camera.view_matrix, "y",
                                       F32Mul(F32Neg(cc.sensitivity), dx))
              ELSE camera.view_matrix
        v2 == IF is_normal(dy)
              THEN append_rotation_mut(v1, "x", F32Mul(cc.sensitivity, dy))
              ELSE v1
    IN  [camera EXCEPT !.view_matrix = v2]

\* Duration::as_secs_f32, for a Duration of dt milliseconds.
as_secs_f32(dt) ==
    F32Add(F32FromInt(dt \div 1000),
           F32Div(F32FromInt((dt % 1000) * 1000000), F32FromInt(1000000000)))

\* the conditional steps of update_camera in the order of the code: six
\* translations along the camera axes, then the two rolls
camera_moves(cc, dt) ==
    LET step == F32Mul(dt, cc.speed)
        turn == F32Mul(dt, cc.sensitivity)
        translate(held, axis) == [held |-> held, op |-> "translate", v |-> VecScale(step, axis)]
        rotate(held, rate) == [held |-> held, op |-> "rotate", angle |-> F32Mul(turn, rate)]
    IN  << translate(cc.is_forward_pressed, VecNeg(Vec3(0, 0, 1))),
           translate(cc.is_backward_pressed, Vec3(0, 0, 1)),
           translate(cc.is_right_pressed, VecNeg(Vec3(1, 0, 0))),
           translate(cc.is_left_pressed, Vec3(1, 0, 0)),
           translate(cc.is_up_pressed, Vec3(0, 1, 0)),
           translate(cc.is_down_pressed, VecNeg(Vec3(0, 1, 0))),
           rotate(cc.is_clock_pressed, F32Lit(-5, 100)),
           rotate(cc.is_counter_clock_pressed, F32Lit(5, 100)) >>

RECURSIVE apply_moves(_, _, _)
\* the view after the steps i.. of moves whose flag is held
apply_moves(view, moves, i) ==
    IF i > Len(moves) THEN view
    ELSE LET m == moves[i] IN
         IF ~m.held THEN apply_moves(view, moves, i + 1)
         ELSE IF m.op = "translate"
              THEN apply_moves(append_translation_mut(view, m.v), moves, i + 1)
         ELSE apply_moves(append_rotation_mut(view, "z", m.angle), moves, i + 1)

update_camera(cc, camera, duration) ==
    [camera EXCEPT !.view_matrix =
        apply_moves(camera.view_matrix, camera_moves(cc, as_secs_f32(duration)), 1)]

(***************************************************************************)
(* state/point_renderer.rs and state/face_renderer.rs.  A GPU buffer is    *)
(* [id, size, usage, contents]: id tells one created buffer from another,  *)
(* size is in bytes and fixed at creation.  A recorded command is a record *)
(* with a cmd field; a pass is the sequence of commands recorded into it.  *)
(***************************************************************************)
\* size_of::<points::Vertex>(): two [f32; 3] and two [u8; 4]
VertexSize == 32

\* size_of::<u32>(), the index format of the face renderer
IndexSize == 4

\* the workgroup width the dispatch count is computed for
WorkgroupSize == 64

\* bytemuck::cast_slice: the items seen as bytes
cast_slice(items, size_of) == [items |-> items, len |-> Len(items) * size_of]

create_buffer_init(id, contents, usage) ==
    [id |-> id, size |-> contents.len, usage |-> usage, contents |-> contents.items]

create_buffer(id, size, usage) ==
    [id |-> id, size |-> size, usage |-> usage, contents |-> <<>>]

\* Buffer::as_entire_binding: the whole of the buffer, as it is at that time
as_entire_binding(buffer) == [buffer |-> buffer.id, size |-> buffer.size]

expander_bind_group(point_vertices, triangle_vertices) ==
    [binding0 |-> as_entire_binding(point_vertices),
     binding1 |-> as_entire_binding(triangle_vertices)]

\* device counts the buffers created so far; the new renderer uses ids
\* device + 1 and device + 2.
PointRenderer_new(device) ==
    LET dummy_vertex == cast_slice(<<Vertex(0, 0, 0)>>, VertexSize)
        point_vertices == create_buffer_init(device + 1, dummy_vertex, {"STORAGE"})
        triangle_vertices == create_buffer_init(device + 2, dummy_vertex,
                                                {"STORAGE", "VERTEX"})
    IN  [point_vertices |-> point_vertices,
         triangle_vertices |-> triangle_vertices,
         expander_bind_group |-> expander_bind_group(point_vertices, triangle_vertices),
         num_points |-> 0]

\* a variant that rounds the group count down
DispatchCount_truncating(num_points) == num_points \div WorkgroupSize

\* (num_points as f64 / 64.0).ceil() as u32
DispatchCount(num_points) ==
    (num_points \div WorkgroupSize) + (IF num_points % WorkgroupSize = 0 THEN 0 ELSE 1)

\* the commands PointRenderer::compute records into the compute pass
PointRenderer_compute(pr) ==
    IF pr.num_points # 0
    THEN << [cmd |-> "set_pipeline", pipeline |-> "expander_pipeline"],
            [cmd |-> "set_bind_group", index |-> 0, group |-> [uniform |-> TRUE]],
            [cmd |-> "set_bind_group", index |-> 1, group |-> pr.expander_bind_group],
            [cmd |-> "dispatch", x |-> DispatchCount(pr.num_points), y |-> 1, z |-> 1] >>
    ELSE <<>>

\* the commands PointRenderer::render records into the render pass
PointRenderer_render(pr) ==
    IF pr.num_points # 0
    THEN << [cmd |-> "set_pipeline", pipeline |-> "render_pipeline"],
            [cmd |-> "set_vertex_buffer", slot |-> 0,
             buffer |-> as_entire_binding(pr.triangle_vertices)],
            [cmd |-> "draw", first |-> 0, count |-> pr.num_points * 3, instances |-> 1] >>
    ELSE <<>>

\* a variant that keeps the bind group of the buffers it replaces
PointRenderer_import_ply_stale_group(pr, device, ply) ==
    LET num_points == Len(ply.point_vertices)
        contents == cast_slice(ply.point_vertices, VertexSize)
    IN  IF num_points = 0 THEN [pr EXCEPT !.num_points = 0]
        ELSE [pr EXCEPT
                !.point_vertices = create_buffer_init(device + 1, contents, {"STORAGE"}),
                !.triangle_vertices = create_buffer(device + 2, contents.len * 3,
                                                    {"STORAGE", "VERTEX"}),
                !.num_points = num_points]

\* The renderer after import_ply; the buffers it creates get ids device + 1
\* and device + 2.  With no point in the data only num_points changes.
PointRenderer_import_ply(pr, device, ply) ==
    LET num_points == Len(ply.point_vertices)
        contents == cast_slice(ply.point_vertices, VertexSize)
        point_vertices == create_buffer_init(device + 1, contents, {"STORAGE"})
        triangle_vertices == create_buffer(device + 2, contents.len * 3,
                                           {"STORAGE", "VERTEX"})
    IN  IF num_points = 0 THEN [pr EXCEPT !.num_points = 0]
        ELSE [point_vertices |-> point_vertices,
              triangle_vertices |-> triangle_vertices,
              expander_bind_group |-> expander_bind_group(point_vertices, triangle_vertices),
              num_points |-> num_points]

\* the number of buffers PointRenderer::import_ply creates for the data
PointRenderer_import_ply_buffers(ply) == IF Len(ply.point_vertices) = 0 THEN 0 ELSE 2

FaceRenderer_new(device) ==
    [vertices |-> create_buffer_init(device + 1, cast_slice(<<Vertex(0, 0, 0)>>, VertexSize),
                                     {"VERTEX"}),
     indices |-> create_buffer_init(device + 2, cast_slice(<<>>, IndexSize), {"INDEX"}),
     num_indices |-> 0]

\* a variant that draws whether or not there are indices
FaceRenderer_render_always(fr) ==
    << [cmd |-> "set_pipeline", pipeline |-> "face_pipeline"],
       [cmd |-> "set_bind_group", index |-> 0, group |-> [uniform |-> TRUE]],
       [cmd |-> "set_vertex_buffer", slot |-> 0, buffer |-> as_entire_binding(fr.vertices)],
       [cmd |-> "set_index_buffer", buffer |-> as_entire_binding(fr.indices)],
       [cmd |-> "draw_indexed", first |-> 0, count |-> fr.num_indices, instances |-> 1] >>

\* the commands FaceRenderer::render records into the render pass
FaceRenderer_render(fr) ==
    IF fr.num_indices # 0
    THEN << [cmd |-> "set_pipeline", pipeline |-> "face_pipeline"],
            [cmd |-> "set_bind_group", index |-> 0, group |-> [uniform |-> TRUE]],
            [cmd |-> "set_vertex_buffer", slot |-> 0,
             buffer |-> as_entire_binding(fr.vertices)],
            [cmd |-> "set_index_buffer", buffer |-> as_entire_binding(fr.indices)],
            [cmd |-> "draw_indexed", first |-> 0, count |-> fr.num_indices,
             instances |-> 1] >>
    ELSE <<>>

\* a variant that keeps the index count it had
FaceRenderer_import_ply_keeps_count(fr, device, ply) ==
    [vertices |-> create_buffer_init(device + 1, cast_slice(ply.face_vertices, VertexSize),
                                     {"VERTEX"}),
     indices |-> create_buffer_init(device + 2, cast_slice(ply.face_indices, IndexSize),
                                    {"INDEX"}),
     num_indices |-> fr.num_indices]

FaceRenderer_import_ply(fr, device, ply) ==
    [vertices |-> create_buffer_init(device + 1, cast_slice(ply.face_vertices, VertexSize),
                                     {"VERTEX"}),
     indices |-> create_buffer_init(device + 2, cast_slice(ply.face_indices, IndexSize),
                                    {"INDEX"}),
     num_indices |-> Len(ply.face_indices)]

(***************************************************************************)
(* state.rs and interface.rs.  The State of main.rs owns the swap chain    *)
(* configuration, the device and the renderers; device counts the buffers  *)
(* created so far.  A frame is the sequence of commands State::render      *)
(* records and submits.                                                    *)
(***************************************************************************)
INITIAL_WIDTH == 1920

INITIAL_HEIGHT == 1080

\* State::new for a window of the given <<width, height>>
State_new(size) ==
    [sc_desc |-> [width |-> size[1], height |-> size[2]],
     point_renderer |-> PointRenderer_new(0),
     face_renderer |-> FaceRenderer_new(2),
     device |-> 4]

\* the camera State::new builds for its swap chain
create_initial_camera(state) ==
    [view_matrix |-> IsometryIdentity,
     aspect |-> F32Div(F32FromInt(state.sc_desc.width), F32FromInt(state.sc_desc.height)),
     fovy |-> F32FromInt(45),
     znear |-> F32Lit(1, 10),
     zfar |-> F32FromInt(100)]

\* perspective(aspect, fovy, znear, zfar) * diag(1, -1, -1, 1) * view: the matrix
\* product is not evaluated, the uniform holds its factors.
build_view_projection_matrix(camera) ==
    [perspective |-> <<camera.aspect, camera.fovy, camera.znear, camera.zfar>>,
     view |-> camera.view_matrix]

\* State::resize, the part that concerns the swap chain
rebuild_swapchain(state, new_size) ==
    [state EXCEPT !.sc_desc = [width |-> new_size[1], height |-> new_size[2]]]

\* State::update: the uniform block is recomputed from the camera and written
State_update(camera) ==
    << [cmd |-> "write_buffer", buffer |-> "uniform_buffer",
        view_proj |-> build_view_projection_matrix(camera)] >>

\* State::render_gui: the egui pass, which clears the frame to black
render_gui(state, app) ==
    [cmd |-> "render_pass", pass |-> "gui", load |-> "Clear",
     body |-> << [cmd |-> "paint",
                  screen |-> state.sc_desc,
                  window_width |-> app.window_width,
                  window_height |-> app.window_height,
                  speed |-> app.camera_controller.speed,
                  sensitivity |-> app.camera_controller.sensitivity] >>]

\* State::render_points: the pass that keeps what the frame holds and draws the
\* points; the draw is the point renderer's.
render_points(state) ==
    [cmd |-> "render_pass", pass |-> "points", load |-> "Load",
     body |-> PointRenderer_render(state.point_renderer)]

\* State::render.  acquired is what get_current_frame returns: "Ok" or the
\* SwapChainError; an error is returned before anything is recorded.
State_render(state, app, acquired) ==
    IF acquired # "Ok" THEN [result |-> acquired, cmds |-> <<>>]
    ELSE [result |-> "Ok",
          cmds |-> << [cmd |-> "begin_frame"],
                      render_gui(state, app),
                      render_points(state),
                      [cmd |-> "submit"] >>]

\* State::import_ply_data: both renderers take the data, one after the other
import_ply_data(state, ply) ==
    LET pr == PointRenderer_import_ply(state.point_renderer, state.device, ply)
        d1 == state.device + PointRenderer_import_ply_buffers(ply)
        fr == FaceRenderer_import_ply(state.face_renderer, d1, ply)
    IN  [state EXCEPT !.point_renderer = pr, !.face_renderer = fr, !.device = d1 + 2]

Interface_new(file_name, window_width, window_height) ==
    [file_name |-> file_name,
     window_width |-> window_width,
     window_height |-> window_height,
     camera_controller |-> CameraController_new(F32Lit(2, 100), F32FromInt(1)),
     camera_scale |-> F32FromInt(1),
     textures |-> <<>>,
     image_index |-> 0]

Interface_resize(app, new_size) ==
    [app EXCEPT !.window_width = new_size[1], !.window_height = new_size[2]]

\* Interface::set_camera_scale: the scene scale is kept for the controller
set_camera_scale(app, scale) == [app EXCEPT !.camera_scale = scale]

\* a variant that allocates the texture with its sides exchanged
make_texture_transposed(allocated, image) ==
    LET width == image.width
        height == image.height
    IN  [id |-> allocated + 1, size |-> <<height, width>>, pixels |-> width * height]

\* GuiRenderer::make_texture: one user texture of the image's width and height
\* is allocated from the image's pixels, one Color32 for each chunk of four
\* bytes; allocated counts the user textures there are, the new one's id is
\* the next.
make_texture(allocated, image) ==
    LET width == image.width
        height == image.height
    IN  [id |-> allocated + 1, size |-> <<width, height>>, pixels |-> width * height]

\* State::import_image: the texture make_texture allocates is listed by the
\* interface with the image's dimensions.
import_image(app, img) ==
    [app EXCEPT !.textures = Append(@, [texture |-> make_texture(Len(@), img),
                                        size |-> <<img.width, img.height>>])]

\* the image-index slider: an index with no image behind it selects nothing
select_image(app, index) ==
    IF index < Len(app.textures) THEN [app EXCEPT !.image_index = index] ELSE app

\* Interface::input for a key event
Interface_input_key(app, keycode, is_pressed, win) ==
    LET r == process_keyboard(app.camera_controller, keycode, is_pressed, win)
    IN  [app |-> [app EXCEPT !.camera_controller = r.cc], win |-> r.win,
         handled |-> r.handled]

(***************************************************************************)
(* main.rs: the program's state and the inputs it is run on.               *)
(***************************************************************************)
VARIABLES
    process,           \* "starting", "running", "error" (main returned Err) or "panicked"
    control_flow,      \* "Poll" or "Exit"
    window,            \* [inner_size, cursor_grab, cursor_visible, redraw_requested]
    resized_pending,   \* the window has a Resized event that is not handled yet
    camera,
    app,               \* the Interface
    state,             \* the State
    clock,             \* Instant::now(), in milliseconds
    last_update_time,
    last_render_time,
    mouse_position,    \* Option<PhysicalPosition>: <<>> for None, <<x, y>> for Some
    out,               \* what the last step produced
    imported           \* history: the geometry imports so far, [count, ply of the
                       \* last, run: how many came with no frame between them up
                       \* to the last, shown: a frame was submitted since the last],
                       \* held: the movement keys whose last event the
                       \* controller got was a press, integrated: the sum
                       \* of the durations update_camera was called with, and
                       \* rendered_at: the clock at the last frame rendered
                       \* (at the start, before the first)

vars == <<process, control_flow, window, resized_pending, camera, app, state, clock,
          last_update_time, last_render_time, mouse_position, out, imported>>

\* geometry imports in one run
MaxImports == 2

\* images imported in one run
MaxImages == 2

\* points of one imported cloud, where only the point renderer is exercised
MaxPoints == 65

\* rotations and later translations the view matrix lists
MaxOps == 2

\* milliseconds between two readings of the clock, and the last reading
TickMs == 5

MaxClock == 15

\* the last reading of the clock where the pacing of frames is followed
MaxPacingClock == 30

\* milliseconds of the two durations whose integration is compared
MaxDt == 3

WindowSizes == {<<INITIAL_WIDTH, INITIAL_HEIGHT>>, <<800, 600>>, <<0, 0>>}

CursorPositions == {<<960, 540>>, <<961, 540>>, <<961, 542>>}

\* the keys pressed and released where the camera moves ("F1" is a key the
\* controller does not map), and where it turns
CameraKeys == {"W", "S", "F1"}

MouseKeys == {"Escape", "R"}

\* two keys of one direction and a key of another
DirectionKeys == {"W", "Up", "A"}

\* the capture key with two movement keys and a key with no mapping
CaptureKeys == {"Escape", "W", "R", "F1"}

SwapChainResults == {"Ok", "Lost", "Outdated", "Timeout", "OutOfMemory"}

Body(kind, ok, vertices, faces) ==
    [kind |-> kind, ok |-> ok, vertices |-> vertices, faces |-> faces,
     width |-> 2, height |-> 3]

File(name, ext, exists, body) ==
    [path |-> [name |-> name, ext |-> ext], exists |-> exists, body |-> body]

Line(n) == [i \in 1..n |-> Vertex(i, 0, 0)]

NoFile == [path |-> [name |-> "", ext |-> ""], exists |-> FALSE,
           body |-> Body("other", "ok", <<>>, <<>>)]

PlyFiles ==
    { File("cloud", "ply", TRUE, Body("ply", "ok", Line(3), <<>>)),
      File("mixed", "ply", TRUE, Body("ply", "ok", Line(5), << <<0, 1, 2>> >>)) }

ImageFiles ==
    { File("photo", "png", TRUE, Body("image", "ok", <<>>, <<>>)) }

BadFiles ==
    { File("gone", "ply", FALSE, Body("ply", "ok", Line(3), <<>>)),
      File("gone", "txt", FALSE, Body("other", "ok", <<>>, <<>>)),
      File("notes", "txt", TRUE, Body("other", "ok", <<>>, <<>>)),
      File("README", "", TRUE, Body("other", "ok", <<>>, <<>>)),
      File("header", "ply", TRUE, Body("ply", "bad_header", <<>>, <<>>)),
      File("floats", "ply", TRUE, Body("ply", "bad_property", Line(3), <<>>)),
      File("index", "ply", TRUE, Body("ply", "ok", Line(3), << <<0, 1, 7>> >>)),
      File("cloud", "jpeg", TRUE, Body("ply", "ok", Line(3), <<>>)) }

Files == PlyFiles \cup ImageFiles \cup BadFiles

\* geometry files that import: a cloud far from the origin, a cloud on the x
\* axis, a single point, two points in one place, a quad that uses every
\* vertex, faces of 5, 3, 2, 1 and 0 indices that share vertices, and nothing
GeometryFiles ==
    { File("far", "ply", TRUE,
           Body("ply", "ok", <<Vertex(1, 0, 1000), Vertex(2, 0, 1000), Vertex(4, 0, 1000)>>,
                <<>>)),
      File("cloud", "ply", TRUE, Body("ply", "ok", Line(3), <<>>)),
      File("one", "ply", TRUE, Body("ply", "ok", Line(1), <<>>)),
      File("twins", "ply", TRUE, Body("ply", "ok", <<Vertex(3, 4, 5), Vertex(3, 4, 5)>>, <<>>)),
      File("quad", "ply", TRUE, Body("ply", "ok", Line(4), << <<0, 1, 2, 3>> >>)),
      File("fan", "ply", TRUE,
           Body("ply", "ok", Line(9),
                << <<8, 6, 4, 2, 0>>, <<0, 2, 7>>, <<6, 1>>, <<8>>, <<>> >>)),
      File("empty", "ply", TRUE, Body("ply", "ok", <<>>, <<>>)) }

\* window sizes with a side of length zero
GeometrySizes == {<<800, 600>>, <<800, 0>>, <<0, 600>>}

\* images of different dimensions
Picture(name, width, height) ==
    [File(name, "png", TRUE, Body("image", "ok", <<>>, <<>>)) EXCEPT
        !.body.width = width, !.body.height = height]

Pictures ==
    {Picture("tall", 2, 3), Picture("wide", 3, 2), Picture("dot", 1, 1),
     Picture("square", 4, 4)}

\* deltas handed to process_mouse: NaN, both infinities, zero and two finite ones
MouseDeltas == {F32NaN, F32Inf(0), F32Inf(1), F32Zero, F32FromInt(1), F32FromInt(-2)}

\* what a step produced: the commands it recorded, the lines it printed (each a
\* tuple of strings), and the file or cursor position the event carried
Out(event, result, gpu, stderr) ==
    [event |-> event, result |-> result, gpu |-> gpu, stderr |-> stderr,
     file |-> NoFile, position |-> <<>>, key |-> <<>>]

Init ==
    /\ process = "starting"
    /\ control_flow = "Poll"
    /\ window = [inner_size |-> <<INITIAL_WIDTH, INITIAL_HEIGHT>>,
                 cursor_grab |-> FALSE, cursor_visible |-> TRUE,
                 redraw_requested |-> FALSE]
    /\ resized_pending = FALSE
    /\ state = State_new(<<INITIAL_WIDTH, INITIAL_HEIGHT>>)
    /\ camera = create_initial_camera(State_new(<<INITIAL_WIDTH, INITIAL_HEIGHT>>))
    /\ app = Interface_new("", INITIAL_HEIGHT, INITIAL_WIDTH)
    /\ clock = 0
    /\ last_update_time = 0
    /\ last_render_time = 0
    /\ mouse_position = <<>>
    /\ out = Out("new", "Ok", <<>>, <<>>)
    /\ imported = [count |-> 0, run |-> 0, shown |-> FALSE, held |-> {}, integrated |-> 0,
                   rendered_at |-> 0,
                   ply |-> [point_vertices |-> <<>>, face_vertices |-> <<>>,
                            face_indices |-> <<>>]]

Running == process = "running" /\ control_flow = "Poll"

\* a variant in which only the first geometry import is taken
LoadPly_first_wins(ply) ==
    LET avg_pos  == avg_vertex_position(ply.point_vertices)
        avg_dist == avg_vertex_distance(avg_pos, ply.point_vertices)
    IN  /\ IF imported.count > 0 THEN UNCHANGED <<camera, app, state>>
           ELSE /\ camera' = set_camera_facing(camera, avg_pos,
                                               F32Mul(avg_dist, F32FromInt(5)))
                /\ app' = set_camera_scale(app, avg_dist)
                /\ state' = import_ply_data(state, ply)
        /\ imported' = [count |-> imported.count + 1,
                        run |-> IF imported.shown THEN 1 ELSE imported.run + 1,
                        shown |-> FALSE, held |-> imported.held,
                        integrated |-> imported.integrated,
                        rendered_at |-> imported.rendered_at,
                        ply |-> ply]

\* main.rs on Import::Ply: the camera frames the points, the interface takes
\* the scale, the state takes the data.
LoadPly(ply) ==
    LET avg_pos  == avg_vertex_position(ply.point_vertices)
        avg_dist == avg_vertex_distance(avg_pos, ply.point_vertices)
    IN  /\ camera' = set_camera_facing(camera, avg_pos, F32Mul(avg_dist, F32FromInt(5)))
        /\ app' = set_camera_scale(app, avg_dist)
        /\ state' = import_ply_data(state, ply)
        /\ imported' = [count |-> imported.count + 1,
                        run |-> IF imported.shown THEN 1 ELSE imported.run + 1,
                        shown |-> FALSE, held |-> imported.held,
                        integrated |-> imported.integrated,
                        rendered_at |-> imported.rendered_at,
                        ply |-> ply]

\* a variant that takes the argument's geometry and leaves the camera where it is
Startup_unframed(input_file) ==
    /\ process = "starting"
    /\ LET r == IF input_file = NoFile THEN [tag |-> "None"] ELSE import(input_file)
           done(lines) == [Out("Startup", r.tag, <<>>, lines) EXCEPT !.file = input_file]
       IN
       CASE r.tag = "Err" ->
              /\ process' = "error"
              /\ out' = done(<<r.msg>>)
              /\ UNCHANGED <<camera, app, state, imported>>
         [] r.tag = "Panic" ->
              /\ process' = "panicked"
              /\ out' = done(<< <<"panicked at", r.at>> >>)
              /\ UNCHANGED <<camera, app, state, imported>>
         [] r.tag = "Ply" ->
              /\ process' = "running"
              /\ state' = import_ply_data(state, r.ply)
              /\ imported' = [count |-> imported.count + 1, run |-> imported.run + 1,
                              shown |-> FALSE, held |-> imported.held,
                              integrated |-> imported.integrated,
                              rendered_at |-> imported.rendered_at, ply |-> r.ply]
              /\ out' = done(<<>>)
              /\ UNCHANGED <<camera, app>>
         [] r.tag = "Image" ->
              /\ process' = "running"
              /\ out' = done(<< <<"Ignoring `input_file` option. Can't parse as PLY.">> >>)
              /\ UNCHANGED <<camera, app, state, imported>>
         [] OTHER ->
              /\ process' = "running"
              /\ out' = done(<<>>)
              /\ UNCHANGED <<camera, app, state, imported>>
    /\ last_update_time' = clock
    /\ last_render_time' = clock
    /\ mouse_position' = <<>>
    /\ UNCHANGED <<control_flow, window, resized_pending, clock>>

\* main(), from the command line to the event loop: the optional input file
Startup(input_file) ==
    /\ process = "starting"
    /\ LET r == IF input_file = NoFile THEN [tag |-> "None"] ELSE import(input_file)
           done(lines) == [Out("Startup", r.tag, <<>>, lines) EXCEPT !.file = input_file]
       IN
       CASE r.tag = "Err" ->
              /\ process' = "error"
              /\ out' = done(<<r.msg>>)
              /\ UNCHANGED <<camera, app, state, imported>>
         [] r.tag = "Panic" ->
              /\ process' = "panicked"
              /\ out' = done(<< <<"panicked at", r.at>> >>)
              /\ UNCHANGED <<camera, app, state, imported>>
         [] r.tag = "Ply" ->
              /\ process' = "running"
              /\ LoadPly(r.ply)
              /\ out' = done(<<>>)
         [] r.tag = "Image" ->
              /\ process' = "running"
              /\ out' = done(<< <<"Ignoring `input_file` option. Can't parse as PLY.">> >>)
              /\ UNCHANGED <<camera, app, state, imported>>
         [] OTHER ->
              /\ process' = "running"
              /\ out' = done(<<>>)
              /\ UNCHANGED <<camera, app, state, imported>>
    /\ last_update_time' = clock
    /\ last_render_time' = clock
    /\ mouse_position' = <<>>
    /\ UNCHANGED <<control_flow, window, resized_pending, clock>>

\* app.resize, camera.resize and state.rebuild_swapchain for the window's size
Reconfigure ==
    /\ app' = Interface_resize(app, window.inner_size)
    /\ camera' = Camera_resize(camera, window.inner_size)
    /\ state' = rebuild_swapchain(state, window.inner_size)

\* the arms of the match on state.render's result; gpu is what the frame issued
\* a variant that stamps the frame with the clock
RenderOk_stamps_now(gpu) ==
    /\ last_render_time' = clock
    /\ window' = [window EXCEPT !.redraw_requested = FALSE]
    /\ out' = Out("RedrawRequested", "Ok", gpu, <<>>)
    /\ imported' = [imported EXCEPT !.shown = TRUE, !.rendered_at = clock]
    /\ UNCHANGED <<control_flow, camera, app, state>>

RenderOk(gpu) ==
    /\ last_render_time' = last_update_time
    /\ window' = [window EXCEPT !.redraw_requested = FALSE]
    /\ out' = Out("RedrawRequested", "Ok", gpu, <<>>)
    /\ imported' = [imported EXCEPT !.shown = TRUE, !.rendered_at = clock]
    /\ UNCHANGED <<control_flow, camera, app, state>>

RenderLostOrOutdated(result, gpu) ==
    /\ Reconfigure
    /\ window' = [window EXCEPT !.redraw_requested = TRUE]
    /\ out' = Out("RedrawRequested", result, gpu, <<>>)
    /\ UNCHANGED <<control_flow, last_render_time, imported>>

\* a variant that goes on after OutOfMemory
RenderOutOfMemory_continues(gpu) ==
    /\ window' = [window EXCEPT !.redraw_requested = TRUE]
    /\ out' = Out("RedrawRequested", "OutOfMemory", gpu, <<>>)
    /\ UNCHANGED <<control_flow, camera, app, state, last_render_time, imported>>

RenderOutOfMemory(gpu) ==
    /\ control_flow' = "Exit"
    /\ window' = [window EXCEPT !.redraw_requested = FALSE]
    /\ out' = Out("RedrawRequested", "OutOfMemory", gpu, <<>>)
    /\ UNCHANGED <<camera, app, state, last_render_time, imported>>

\* a variant that treats Timeout like Lost
RenderTimeout_reconfigures(gpu) ==
    /\ Reconfigure
    /\ window' = [window EXCEPT !.redraw_requested = TRUE]
    /\ out' = Out("RedrawRequested", "Timeout", gpu, << <<"warning: there was a timeout">> >>)
    /\ UNCHANGED <<control_flow, last_render_time, imported>>

RenderTimeout(gpu) ==
    /\ window' = [window EXCEPT !.redraw_requested = TRUE]
    /\ out' = Out("RedrawRequested", "Timeout", gpu, << <<"warning: there was a timeout">> >>)
    /\ UNCHANGED <<control_flow, camera, app, state, last_render_time, imported>>

\* Event::RedrawRequested; acquired is the outcome of get_current_frame
RedrawRequested(acquired) ==
    /\ Running
    /\ LET upload == State_update(camera)
           frame  == State_render(state, app, acquired)
       IN  CASE frame.result = "Ok" -> RenderOk(upload \o frame.cmds)
             [] frame.result \in {"Lost", "Outdated"} ->
                    RenderLostOrOutdated(frame.result, upload)
             [] frame.result = "OutOfMemory" -> RenderOutOfMemory(upload)
             [] frame.result = "Timeout" -> RenderTimeout(upload)
    /\ UNCHANGED <<process, resized_pending, clock, last_update_time, mouse_position>>

\* a variant that measures dt from the last frame rendered
MainEventsCleared_since_render ==
    /\ Running
    /\ LET now == clock
           dt  == now - last_render_time
           moved == update_camera(app.camera_controller, camera, dt)
       IN  /\ Len(moved.view_matrix.ops) <= MaxOps
           /\ last_update_time' = now
           /\ camera' = moved
           /\ imported' = [imported EXCEPT !.integrated = @ + dt]
           /\ window' = IF clock - last_render_time >= 15
                        THEN [window EXCEPT !.redraw_requested = TRUE]
                        ELSE window
           /\ out' = Out("MainEventsCleared",
                         IF clock - last_render_time >= 15 THEN "request_redraw" ELSE "Ok",
                         <<>>, <<>>)
    /\ UNCHANGED <<process, control_flow, resized_pending, app, state, clock,
                   last_render_time, mouse_position>>

\* Event::MainEventsCleared
MainEventsCleared ==
    /\ Running
    /\ LET now == clock
           dt  == now - last_update_time
           moved == update_camera(app.camera_controller, camera, dt)
       IN  /\ Len(moved.view_matrix.ops) <= MaxOps
           /\ last_update_time' = now
           /\ camera' = moved
           /\ imported' = [imported EXCEPT !.integrated = @ + dt]
           /\ window' = IF clock - last_render_time >= 15
                        THEN [window EXCEPT !.redraw_requested = TRUE]
                        ELSE window
           /\ out' = Out("MainEventsCleared",
                         IF clock - last_render_time >= 15 THEN "request_redraw" ELSE "Ok",
                         <<>>, <<>>)
    /\ UNCHANGED <<process, control_flow, resized_pending, app, state, clock,
                   last_render_time, mouse_position>>

\* time passes between two events, up to the reading last
TickTo(last) ==
    /\ Running
    /\ clock + TickMs <= last
    /\ clock' = clock + TickMs
    /\ out' = Out("Tick", "Ok", <<>>, <<>>)
    /\ UNCHANGED <<process, control_flow, window, resized_pending, camera, app, state,
                   last_update_time, last_render_time, mouse_position, imported>>

Tick == TickTo(MaxClock)

\* WindowEvent::CloseRequested
CloseRequested ==
    /\ Running
    /\ control_flow' = "Exit"
    /\ out' = Out("CloseRequested", "Ok", <<>>, <<>>)
    /\ UNCHANGED <<process, window, resized_pending, camera, app, state, clock,
                   last_update_time, last_render_time, mouse_position, imported>>

\* the user or the window system gives the window another size
WindowResizes(size) ==
    /\ Running
    /\ size # window.inner_size
    /\ window' = [window EXCEPT !.inner_size = size]
    /\ resized_pending' = TRUE
    /\ out' = Out("WindowResizes", "Ok", <<>>, <<>>)
    /\ UNCHANGED <<process, control_flow, camera, app, state, clock, last_update_time,
                   last_render_time, mouse_position, imported>>

\* WindowEvent::Resized
Resized ==
    /\ Running
    /\ resized_pending
    /\ resized_pending' = FALSE
    /\ Reconfigure
    /\ out' = Out("Resized", "Ok", <<>>, <<>>)
    /\ UNCHANGED <<process, control_flow, window, clock, last_update_time,
                   last_render_time, mouse_position, imported>>

\* WindowEvent::ScaleFactorChanged
ScaleFactorChanged ==
    /\ Running
    /\ Reconfigure
    /\ out' = Out("ScaleFactorChanged", "Ok", <<>>, <<>>)
    /\ UNCHANGED <<process, control_flow, window, resized_pending, clock,
                   last_update_time, last_render_time, mouse_position, imported>>

\* WindowEvent::DroppedFile
DroppedFile(file) ==
    /\ Running
    /\ LET r == import(file)
           done(lines) == [Out("DroppedFile", r.tag, <<>>, lines) EXCEPT !.file = file]
       IN
       CASE r.tag = "Ply" ->
              /\ imported.count < MaxImports
              /\ LoadPly(r.ply)
              /\ out' = done(<<>>)
              /\ UNCHANGED process
         [] r.tag = "Image" ->
              /\ Len(app.textures) < MaxImages
              /\ app' = import_image(app, r.img)
              /\ out' = done(<<>>)
              /\ UNCHANGED <<process, camera, state, imported>>
         [] r.tag = "Err" ->
              /\ out' = done(<< <<"145">> \o r.msg >>)
              /\ UNCHANGED <<process, camera, app, state, imported>>
         [] r.tag = "Panic" ->
              /\ process' = "panicked"
              /\ out' = done(<< <<"panicked at", r.at>> >>)
              /\ UNCHANGED <<camera, app, state, imported>>
    /\ UNCHANGED <<control_flow, window, resized_pending, clock, last_update_time,
                   last_render_time, mouse_position>>

\* WindowEvent::KeyboardInput; gui tells whether egui captures the event,
\* grab_ok whether the window system carries out a cursor grab
KeyboardInput(keycode, is_pressed, gui, grab_ok) ==
    /\ Running
    /\ LET r == Interface_input_key(app, keycode, is_pressed,
                                    [cursor_grab |-> window.cursor_grab,
                                     cursor_visible |-> window.cursor_visible,
                                     grab_ok |-> grab_ok])
           key == [code |-> keycode, is_pressed |-> is_pressed, gui |-> gui,
                   handled |-> ~gui /\ r.handled]
       IN  /\ IF gui THEN UNCHANGED <<app, window, imported>>
              ELSE /\ app' = r.app
                   /\ window' = [window EXCEPT !.cursor_grab = r.win.cursor_grab,
                                               !.cursor_visible = r.win.cursor_visible]
                   /\ imported' = [imported EXCEPT
                                      !.held = IF keycode \notin MovementKeys THEN @
                                               ELSE IF is_pressed THEN @ \cup {keycode}
                                               ELSE @ \ {keycode}]
           /\ out' = [Out("KeyboardInput", "Ok", <<>>, <<>>) EXCEPT !.key = key]
    /\ UNCHANGED <<process, control_flow, resized_pending, camera, state, clock,
                   last_update_time, last_render_time, mouse_position>>

\* a variant that turns the camera whether or not the mouse is captured
CursorMoved_uncaptured(position, set_ok) ==
    /\ Running
    /\ LET old_pos == mouse_position
           delta_x == position[1] - old_pos[1]
           delta_y == position[2] - old_pos[2]
           center  == <<window.inner_size[1] \div 2, window.inner_size[2] \div 2>>
           turned  == process_mouse(app.camera_controller, camera,
                                    F32FromInt(delta_x), F32FromInt(delta_y))
           done(result) == [Out("CursorMoved", result, <<>>, <<>>) EXCEPT
                               !.position = position]
       IN  IF old_pos # <<>>
           THEN /\ Len(turned.view_matrix.ops) <= MaxOps
                /\ mouse_position' = IF set_ok THEN center ELSE position
                /\ camera' = turned
                /\ out' = done(IF set_ok THEN "Centered" ELSE "Ok")
           ELSE /\ mouse_position' = position
                /\ out' = done("Ok")
                /\ UNCHANGED camera
    /\ UNCHANGED <<process, control_flow, window, resized_pending, app, state, clock,
                   last_update_time, last_render_time, imported>>

\* WindowEvent::CursorMoved; set_ok is whether set_cursor_position succeeds,
\* and the result recorded is "Centered" when the cursor was put back to the
\* center.  The event is handled here and not a second time by the interface.
CursorMoved(position, set_ok) ==
    /\ Running
    /\ LET old_pos == mouse_position
           delta_x == position[1] - old_pos[1]
           delta_y == position[2] - old_pos[2]
           center  == <<window.inner_size[1] \div 2, window.inner_size[2] \div 2>>
           turned  == process_mouse(app.camera_controller, camera,
                                    F32FromInt(delta_x), F32FromInt(delta_y))
           done(result) == [Out("CursorMoved", result, <<>>, <<>>) EXCEPT
                               !.position = position]
       IN  IF old_pos # <<>> /\ app.camera_controller.mouse_captured
           THEN /\ Len(turned.view_matrix.ops) <= MaxOps
                /\ mouse_position' = IF set_ok THEN center ELSE position
                /\ camera' = turned
                /\ out' = done(IF set_ok THEN "Centered" ELSE "Ok")
           ELSE /\ mouse_position' = position
                /\ out' = done("Ok")
                /\ UNCHANGED camera
    /\ UNCHANGED <<process, control_flow, window, resized_pending, app, state, clock,
                   last_update_time, last_render_time, imported>>

\* PointRenderer::import_ply, for a cloud of n points and nothing else
PointImport(n) ==
    /\ imported.count < MaxImports
    /\ LET ply == [point_vertices |-> Line(n), face_vertices |-> <<>>,
                   face_indices |-> <<>>]
       IN  /\ state' = [state EXCEPT
                  !.point_renderer = PointRenderer_import_ply(@, state.device, ply),
                  !.device = @ + PointRenderer_import_ply_buffers(ply)]
           /\ imported' = [count |-> imported.count + 1,
                        run |-> IF imported.shown THEN 1 ELSE imported.run + 1,
                        shown |-> FALSE, held |-> imported.held,
                        integrated |-> imported.integrated,
                        rendered_at |-> imported.rendered_at,
                        ply |-> ply]
    /\ out' = Out("import_ply", "Ok", <<>>, <<>>)
    /\ UNCHANGED <<process, control_flow, window, resized_pending, camera, app, clock,
                   last_update_time, last_render_time, mouse_position>>

\* PointRenderer::compute, into an empty compute pass
PointCompute ==
    /\ out' = Out("compute", "Ok", PointRenderer_compute(state.point_renderer), <<>>)
    /\ UNCHANGED <<process, control_flow, window, resized_pending, camera, app, state,
                   clock, last_update_time, last_render_time, mouse_position, imported>>

\* PointRenderer::render, into an empty render pass
PointRender ==
    /\ out' = Out("render", "Ok", PointRenderer_render(state.point_renderer), <<>>)
    /\ UNCHANGED <<process, control_flow, window, resized_pending, camera, app, state,
                   clock, last_update_time, last_render_time, mouse_position, imported>>

\* FaceRenderer::render, into an empty render pass
FaceRender ==
    /\ out' = Out("face_render", "Ok", FaceRenderer_render(state.face_renderer), <<>>)
    /\ UNCHANGED <<process, control_flow, window, resized_pending, camera, app, state,
                   clock, last_update_time, last_render_time, mouse_position, imported>>

\* CameraController::process_mouse with the deltas dx and dy
ProcessMouse(dx, dy) ==
    /\ Running
    /\ LET turned == process_mouse(app.camera_controller, camera, dx, dy)
       IN  /\ Len(turned.view_matrix.ops) <= MaxOps
           /\ camera' = turned
    /\ out' = [Out("process_mouse", "Ok", <<>>, <<>>) EXCEPT !.position = <<dx, dy>>]
    /\ UNCHANGED <<process, control_flow, window, resized_pending, app, state, clock,
                   last_update_time, last_render_time, mouse_position, imported>>

\* the image-index slider is moved to index
SelectImage(index) ==
    /\ Running
    /\ app' = select_image(app, index)
    /\ out' = [Out("select_image", "Ok", <<>>, <<>>) EXCEPT !.position = <<index>>]
    /\ UNCHANGED <<process, control_flow, window, resized_pending, camera, state, clock,
                   last_update_time, last_render_time, mouse_position, imported>>

\* the event loop: start-up, frames, window events, dropped files
Next ==
    \/ \E f \in Files \cup {NoFile} : Startup(f)
    \/ \E acquired \in SwapChainResults : RedrawRequested(acquired)
    \/ CloseRequested
    \/ \E size \in WindowSizes : WindowResizes(size)
    \/ Resized
    \/ ScaleFactorChanged
    \/ \E f \in Files : DroppedFile(f)

Spec == Init /\ [][Next]_vars

\* the point renderer alone: imports of clouds of every size, passes
NextPoints ==
    \/ \E n \in 0..MaxPoints : PointImport(n)
    \/ PointCompute
    \/ PointRender

SpecPoints == Init /\ [][NextPoints]_vars

\* the camera under the movement keys and the clock
NextCamera ==
    \/ Startup(NoFile)
    \/ Tick
    \/ MainEventsCleared
    \/ \E k \in CameraKeys, p \in BOOLEAN, gui \in BOOLEAN, grab_ok \in BOOLEAN :
          KeyboardInput(k, p, gui, grab_ok)

SpecCamera == Init /\ [][NextCamera]_vars

\* the camera under the mouse, the capture and roll keys and the clock
NextMouse ==
    \/ Startup(NoFile)
    \/ Tick
    \/ MainEventsCleared
    \/ \E k \in MouseKeys, p \in BOOLEAN, gui \in BOOLEAN : KeyboardInput(k, p, gui, TRUE)
    \/ \E pos \in CursorPositions, ok \in BOOLEAN : CursorMoved(pos, ok)

SpecMouse == Init /\ [][NextMouse]_vars

\* geometry imports with their framing, resizes, frames and the face pass
NextGeometry ==
    \/ Startup(NoFile)
    \/ \E f \in GeometryFiles : DroppedFile(f)
    \/ \E size \in GeometrySizes : WindowResizes(size)
    \/ Resized
    \/ RedrawRequested("Ok")
    \/ FaceRender

SpecGeometry == Init /\ [][NextGeometry]_vars

\* process_mouse on deltas of every kind
NextDeltas ==
    \/ Startup(NoFile)
    \/ \E dx \in MouseDeltas, dy \in MouseDeltas : ProcessMouse(dx, dy)

SpecDeltas == Init /\ [][NextDeltas]_vars

\* images dropped on the window and the image-index slider
NextImages ==
    \/ Startup(NoFile)
    \/ \E f \in Pictures : DroppedFile(f)
    \/ \E index \in 0..(MaxImages + 1) : SelectImage(index)

SpecImages == Init /\ [][NextImages]_vars

\* the capture key on a window system that may refuse the cursor grab
NextCapture ==
    \/ Startup(NoFile)
    \/ \E k \in CaptureKeys, p \in BOOLEAN, gui \in BOOLEAN, grab_ok \in BOOLEAN :
          KeyboardInput(k, p, gui, grab_ok)

SpecCapture == Init /\ [][NextCapture]_vars

\* keys of the same direction pressed and released; only a key that is down
\* is released
NextKeys ==
    \/ Startup(NoFile)
    \/ \E k \in DirectionKeys, gui \in BOOLEAN : KeyboardInput(k, TRUE, gui, TRUE)
    \/ \E k \in DirectionKeys \cap imported.held, gui \in BOOLEAN :
          KeyboardInput(k, FALSE, gui, TRUE)
    \/ Tick
    \/ MainEventsCleared

SpecKeys == Init /\ [][NextKeys]_vars

\* updates and frames against the clock, with W pressed and released
NextPacing ==
    \/ Startup(NoFile)
    \/ TickTo(MaxPacingClock)
    \/ MainEventsCleared
    \/ \E acquired \in SwapChainResults : RedrawRequested(acquired)
    \/ \E p \in BOOLEAN : KeyboardInput("W", p, FALSE, TRUE)

SpecPacing == Init /\ [][NextPacing]_vars

\* updates and frames alone, as time passes
NextRedraws ==
    \/ Startup(NoFile)
    \/ TickTo(MaxPacingClock)
    \/ MainEventsCleared
    \/ \E acquired \in SwapChainResults : RedrawRequested(acquired)

\* MainEventsCleared when no key is held, so that update_camera leaves the
\* camera where it is
UpdateDue ==
    /\ Running
    /\ last_update_time' = clock
    /\ camera' = camera
    /\ imported' = [imported EXCEPT !.integrated = @ + (clock - last_update_time)]
    /\ window' = IF clock - last_render_time >= 15
                 THEN [window EXCEPT !.redraw_requested = TRUE]
                 ELSE window
    /\ out' = Out("MainEventsCleared",
                  IF clock - last_render_time >= 15 THEN "request_redraw" ELSE "Ok",
                  <<>>, <<>>)
    /\ UNCHANGED <<process, control_flow, resized_pending, app, state, clock,
                   last_render_time, mouse_position>>

\* the loop polls, so the update that is due comes, and time goes on
SpecRedraws ==
    /\ Init
    /\ [][NextRedraws]_vars
    /\ WF_vars(UpdateDue)
    /\ WF_vars(TickTo(MaxPacingClock))

(***************************************************************************)
(* Properties.                                                             *)
(***************************************************************************)
\* the commands of one kind among those a step recorded
Commands(cmds, name) == SelectSeq(cmds, LAMBDA c : c.cmd = name)

\* C1: after import_ply with N points, compute() records exactly one dispatch
\* whose group count is the least g with 64 * g >= N, and render() records
\* exactly one draw of 3 * N vertices; with N = 0 neither records anything,
\* whatever was imported before.
C1_DispatchAndDraw ==
    LET N == Len(imported.ply.point_vertices)
        dispatches == Commands(out.gpu, "dispatch")
        draws == Commands(out.gpu, "draw")
    IN  /\ out.event = "compute" =>
              IF N = 0 THEN out.gpu = <<>>
              ELSE /\ Len(dispatches) = 1
                   /\ dispatches[1].y = 1
                   /\ dispatches[1].z = 1
                   /\ 64 * dispatches[1].x >= N
                   /\ 64 * (dispatches[1].x - 1) < N
        /\ out.event = "render" =>
              IF N = 0 THEN out.gpu = <<>>
              ELSE /\ Len(draws) = 1
                   /\ draws[1].first = 0
                   /\ draws[1].count = 3 * N
                   /\ draws[1].instances = 1

\* a second import, of 65 points, is dispatched in two groups
C1_Witness ==
    /\ out.event = "compute"
    /\ imported.count = 2
    /\ Len(imported.ply.point_vertices) = 65
    /\ Commands(out.gpu, "dispatch") = << [cmd |-> "dispatch", x |-> 2, y |-> 1, z |-> 1] >>

\* C2: a frame uploads the uniform block, then runs the compute pass, then the
\* geometry pass, then the GUI pass, then submits once; the GUI pass never
\* precedes the geometry pass.
C2_FrameOrder ==
    (out.event = "RedrawRequested" /\ out.result = "Ok") =>
        LET passes == SelectSeq(out.gpu, LAMBDA c : c.cmd \in {"compute_pass", "render_pass"})
            gui == {i \in 1..Len(passes) : passes[i].cmd = "render_pass" /\ passes[i].pass = "gui"}
            geometry == {i \in 1..Len(passes) :
                            passes[i].cmd = "render_pass" /\ passes[i].pass # "gui"}
            compute == {i \in 1..Len(passes) : passes[i].cmd = "compute_pass"}
        IN  /\ out.gpu[1].cmd = "write_buffer"
            /\ out.gpu[Len(out.gpu)].cmd = "submit"
            /\ Len(Commands(out.gpu, "submit")) = 1
            /\ gui # {} /\ geometry # {}
            /\ \A g \in geometry : \A u \in gui : g < u
            /\ \A c \in compute : \A g \in geometry : c < g
            /\ (state.point_renderer.num_points # 0) => compute # {}

\* C3: whenever num_points > 0 the triangle buffer holds exactly 3 * num_points
\* vertices, the point buffer holds exactly the num_points imported vertices,
\* and the expander bind group binds these two buffers in full; a compute pass
\* binds that group, so its dispatch writes a buffer of the current size.
C3_BuffersMatchPointCount ==
    LET pr == state.point_renderer
        bound == SelectSeq(out.gpu, LAMBDA c : c.cmd = "set_bind_group" /\ c.index = 1)
    IN  pr.num_points > 0 =>
          /\ pr.triangle_vertices.size = 3 * pr.num_points * 32
          /\ pr.point_vertices.size = pr.num_points * 32
          /\ pr.point_vertices.contents = imported.ply.point_vertices
          /\ Len(pr.point_vertices.contents) = pr.num_points
          /\ pr.expander_bind_group.binding0 =
                [buffer |-> pr.point_vertices.id, size |-> pr.point_vertices.size]
          /\ pr.expander_bind_group.binding1 =
                [buffer |-> pr.triangle_vertices.id, size |-> pr.triangle_vertices.size]
          /\ pr.point_vertices.id # pr.triangle_vertices.id
          /\ out.event = "compute" =>
                /\ Len(bound) = 1
                /\ bound[1].group.binding1 =
                      [buffer |-> pr.triangle_vertices.id, size |-> 3 * pr.num_points * 32]

\* a compute pass after a second non-empty import, whose buffers are new
C3_Witness ==
    /\ out.event = "compute"
    /\ imported.count = 2
    /\ state.point_renderer.num_points > 0
    /\ state.point_renderer.point_vertices.id = 7
    /\ Commands(out.gpu, "dispatch") # <<>>

\* C4: after a frame that failed with Lost or Outdated, the interface size, the
\* camera aspect and the swap chain are those of the window's current size, a
\* redraw is requested and the application runs on.
C4_LostOrOutdatedReconfigures ==
    (out.event = "RedrawRequested" /\ out.result \in {"Lost", "Outdated"}) =>
        /\ app.window_width = window.inner_size[1]
        /\ app.window_height = window.inner_size[2]
        /\ camera.aspect = F32Div(F32FromInt(window.inner_size[1]),
                                  F32FromInt(window.inner_size[2]))
        /\ state.sc_desc = [width |-> window.inner_size[1], height |-> window.inner_size[2]]
        /\ window.redraw_requested
        /\ control_flow = "Poll"
        /\ process = "running"

\* the window was resized and the Resized event is still to come when the
\* frame fails with Lost
C4_Witness ==
    /\ out.event = "RedrawRequested"
    /\ out.result = "Lost"
    /\ resized_pending
    /\ window.inner_size = <<800, 600>>
    /\ state.sc_desc.width = 800
    /\ camera.aspect = F32Div(F32FromInt(800), F32FromInt(600))

\* C5: a frame that fails with Timeout prints the warning and requests a
\* redraw; the swap chain configuration, the camera and the interface are left
\* as they were, and the application runs on.
C5_TimeoutLeavesConfiguration ==
    [][(out'.event = "RedrawRequested" /\ out'.result = "Timeout") =>
          /\ out'.stderr = << <<"warning: there was a timeout">> >>
          /\ window'.redraw_requested
          /\ state' = state
          /\ camera' = camera
          /\ app' = app
          /\ control_flow' = "Poll"
          /\ process' = "running"]_vars

\* a timeout while the swap chain is still configured for the window's earlier size
C5_Witness ==
    /\ out.event = "RedrawRequested"
    /\ out.result = "Timeout"
    /\ resized_pending
    /\ window.inner_size = <<800, 600>>
    /\ state.sc_desc.width = INITIAL_WIDTH
    /\ window.redraw_requested

C7_FailedImportIsAnErrorResult ==
    [][(out'.event = "DroppedFile" /\ out'.result \notin {"Ply", "Image"}) =>
          /\ out'.result = "Err"
          /\ process' = "running"
          /\ camera' = camera
          /\ state' = state
          /\ app' = app]_vars

\* C8: import() decides by the extension alone: "ply" takes the geometry
\* branch, "png", "jpg" and "jpeg" the image branch, and any other extension,
\* or none, gives an error that names the extension and the path; it never
\* panics.
C8_DispatchOnExtension ==
    (out.event \in {"Startup", "DroppedFile"} /\ out.file # NoFile) =>
        LET extension == Extension(out.file.path) IN
        /\ out.result # "Panic"
        /\ extension = "ply" => out.result \in {"Ply", "Err"}
        /\ extension \in {"png", "jpg", "jpeg"} => out.result \in {"Image", "Err"}
        /\ extension \notin {"ply", "png", "jpg", "jpeg"} =>
              /\ out.result = "Err"
              /\ \E i \in 1..Len(out.stderr) :
                    /\ \E j \in 1..Len(out.stderr[i]) : out.stderr[i][j] = extension
                    /\ \E j \in 1..Len(out.stderr[i]) : out.stderr[i][j] = out.file.path.name

\* only the forward key is held
ForwardOnly(cc) ==
    /\ cc.is_forward_pressed
    /\ ~cc.is_backward_pressed /\ ~cc.is_left_pressed /\ ~cc.is_right_pressed
    /\ ~cc.is_up_pressed /\ ~cc.is_down_pressed
    /\ ~cc.is_clock_pressed /\ ~cc.is_counter_clock_pressed

\* the durations, in milliseconds, of the two updates that are compared
Durations == 0..MaxDt

\* update_camera for d1, then for d2
Twice(cc, cam, d1, d2) == update_camera(cc, update_camera(cc, cam, d1), d2)

\* |a - b| <= 2^-20 * scale
Close(a, b, scale) == ~F32Lt(F32Scale(F32Abs(scale), -20), F32Abs(F32Sub(a, b)))

\* the larger magnitude of two values
MaxMag(a, b) == IF F32MagLt(a, b) THEN F32Abs(b) ELSE F32Abs(a)

Rotations(view) == SelectSeq(view.ops, LAMBDA o : o.op = "rotate")

\* the rotations one mouse-move event is to contribute, each once
MouseRotations(cc, old_pos, position) ==
    IF old_pos = <<>> \/ ~cc.mouse_captured THEN <<>>
    ELSE (IF position[1] # old_pos[1]
          THEN << [op |-> "rotate", axis |-> "y",
                   angle |-> F32Mul(F32Neg(cc.sensitivity),
                                    F32FromInt(position[1] - old_pos[1]))] >>
          ELSE <<>>)
         \o (IF position[2] # old_pos[2]
             THEN << [op |-> "rotate", axis |-> "x",
                      angle |-> F32Mul(cc.sensitivity,
                                       F32FromInt(position[2] - old_pos[2]))] >>
             ELSE <<>>)

GeometryImported == out.event \in {"Startup", "DroppedFile"} /\ out.result = "Ply"

\* what main.rs hands to set_camera_facing for the last import
FramingTarget == avg_vertex_position(imported.ply.point_vertices)

FramingDistance ==
    F32Mul(avg_vertex_distance(FramingTarget, imported.ply.point_vertices), F32FromInt(5))

\* finite and greater than zero
F32Positive(a) == a.k = "fin" /\ a.m # 0 /\ a.s = 0

\* the point p in view space, for a view that has not been rotated
ViewOf(view, p) == [c \in 1..3 |-> F32Add(p[c], view.t[c])]

Reconfigured(o) ==
    \/ o.event \in {"Resized", "ScaleFactorChanged"}
    \/ o.event = "RedrawRequested" /\ o.result \in {"Lost", "Outdated"}

\* C12: a Resized or ScaleFactorChanged event, and the reconfiguration after a
\* Lost or Outdated frame, set the camera's aspect to the f32 quotient of the
\* window's width and height (for a window with both sides non-zero, aspect
\* times height is the width up to rounding) and leave znear, zfar, fovy and
\* the view transform as they were.
C12_ResizeSetsAspectOnly ==
    [][Reconfigured(out') =>
          LET w == F32FromInt(window.inner_size[1])
              h == F32FromInt(window.inner_size[2])
          IN  /\ camera'.aspect = F32Div(w, h)
              /\ (window.inner_size[1] > 0 /\ window.inner_size[2] > 0) =>
                     Close(F32Mul(camera'.aspect, h), w, w)
              /\ camera'.znear = camera.znear
              /\ camera'.zfar = camera.zfar
              /\ camera'.fovy = camera.fovy
              /\ camera'.view_matrix = camera.view_matrix]_vars

\* a camera framed by an import is resized to 800 x 600
C12_Witness ==
    /\ out.event = "Resized"
    /\ imported.count > 0
    /\ window.inner_size = <<800, 600>>
    /\ camera.aspect = F32Lit(4, 3)
    /\ F32Positive(camera.znear)
    /\ camera.znear # F32Lit(1, 10)

\* the triangles of the fan over one face, as indices of the file's vertices
FaceTriples(face) ==
    [j \in 1..(IF Len(face) < 3 THEN 0 ELSE Len(face) - 2) |->
        <<face[1], face[j + 1], face[j + 2]>>]

RECURSIVE AllTriples(_)
\* the fans of all faces, in face order
AllTriples(faces) ==
    IF faces = <<>> THEN <<>> ELSE FaceTriples(Head(faces)) \o AllTriples(Tail(faces))

\* C13: a face [v0, ..., vk-1] gives the max(k - 2, 0) triangles (v0, vi, vi+1),
\* i = 1..k-2 in increasing i, appended in face order, and every index emitted
\* is the slot, in face_vertices, of the file vertex it stands for.
C13_FanTriangulation ==
    GeometryImported =>
        LET body == out.file.body
            triples == AllTriples(body.faces)
            ply == imported.ply
        IN  /\ Len(ply.face_indices) = 3 * Len(triples)
            /\ \A n \in 1..Len(ply.face_indices) :
                   LET v == triples[((n - 1) \div 3) + 1][((n - 1) % 3) + 1]
                       slot == ply.face_indices[n]
                   IN  /\ slot \in 0..(Len(ply.face_vertices) - 1)
                       /\ ply.face_vertices[slot + 1] = body.vertices[v + 1]

\* faces of 5, 3, 2, 1 and 0 indices give three triangles, one and none
C13_Witness ==
    /\ GeometryImported
    /\ out.file.path.name = "fan"
    /\ imported.ply.face_indices = <<0, 1, 2, 0, 2, 3, 0, 3, 4, 4, 3, 5>>
    /\ Len(imported.ply.face_vertices) = 7

\* C14: after a geometry import that succeeds every value of face_indices is
\* less than the number of face vertices, and the number of indices is a
\* multiple of 3.
C14_IndicesInRange ==
    LET ply == imported.ply IN
    /\ Len(ply.face_indices) % 3 = 0
    /\ \A n \in 1..Len(ply.face_indices) :
           ply.face_indices[n] >= 0 /\ ply.face_indices[n] < Len(ply.face_vertices)

\* faces of several sizes that share vertices and leave some vertices free
C14_Witness ==
    /\ GeometryImported
    /\ Len(out.file.body.faces) = 5
    /\ Len(imported.ply.face_vertices) = 7
    /\ Len(imported.ply.point_vertices) = 2
    /\ \E n \in 1..Len(imported.ply.face_indices) : imported.ply.face_indices[n] = 5

\* C15: whatever geometry is imported, and so when it has no free point, a
\* single one, or all of them in one place, the distance handed to
\* set_camera_facing is finite and greater than zero, and the clip planes the
\* projection is built from are finite.
C15_FramingDistancePositive ==
    GeometryImported =>
        /\ F32Positive(FramingDistance)
        /\ camera.znear.k = "fin"
        /\ camera.zfar.k = "fin"

\* C16: while the program runs the camera has 0 < znear < zfar and aspect > 0.
C16_CameraWellFormed ==
    process = "running" =>
        /\ F32Lt(F32Zero, camera.znear)
        /\ F32Lt(camera.znear, camera.zfar)
        /\ F32Lt(F32Zero, camera.aspect)

\* C17: FaceRenderer::render records nothing at start-up and after an import
\* without face indices; after an import with k > 0 indices it records one
\* indexed draw of indices 0..k, from the vertex and index buffers the face
\* renderer made of that import's face vertices and face indices.
C17_FaceDrawOnlyWithIndices ==
    out.event = "face_render" =>
        LET fr == state.face_renderer
            pr == state.point_renderer
            k == Len(imported.ply.face_indices)
            draws == Commands(out.gpu, "draw_indexed")
            vertex == Commands(out.gpu, "set_vertex_buffer")
            index == Commands(out.gpu, "set_index_buffer")
        IN  IF k = 0 THEN out.gpu = <<>>
            ELSE /\ Len(draws) = 1 /\ Len(vertex) = 1 /\ Len(index) = 1
                 /\ draws = << out.gpu[Len(out.gpu)] >>
                 /\ draws[1].first = 0 /\ draws[1].count = k /\ draws[1].instances = 1
                 /\ vertex[1].buffer = [buffer |-> fr.vertices.id,
                                        size |-> VertexSize * Len(imported.ply.face_vertices)]
                 /\ index[1].buffer = [buffer |-> fr.indices.id, size |-> IndexSize * k]
                 /\ fr.vertices.contents = imported.ply.face_vertices
                 /\ fr.indices.contents = imported.ply.face_indices
                 /\ {fr.vertices.id, fr.indices.id}
                       \cap {pr.point_vertices.id, pr.triangle_vertices.id} = {}
                 /\ fr.vertices.id # fr.indices.id

\* the face pass after a second import, one with twelve indices
C17_Witness ==
    /\ out.event = "face_render"
    /\ imported.count = 2
    /\ Len(imported.ply.face_indices) = 12
    /\ Len(Commands(out.gpu, "draw_indexed")) = 1

\* a frame has just been recorded and submitted
FrameSubmitted == out.event = "RedrawRequested" /\ out.result = "Ok"

\* the bodies of the passes of the last frame that draw points
PointPasses ==
    SelectSeq(out.gpu, LAMBDA c : c.cmd = "render_pass" /\ c.pass = "points")

RotationsAbout(ops, axis) == SelectSeq(ops, LAMBDA o : o.op = "rotate" /\ o.axis = axis)

\* neither NaN nor infinite
F32Finite(a) == a.k = "fin"

\* C20: process_mouse applies no yaw when dx is NaN or infinite and no pitch
\* when dy is NaN or infinite, each whatever the other delta is; a finite
\* non-zero delta turns the camera once about its axis, by sensitivity times
\* the delta; with both deltas non-finite or zero the camera is left as it was.
C20_NonFiniteDeltasIgnored ==
    [][out'.event = "process_mouse" =>
          LET dx == out'.position[1]
              dy == out'.position[2]
              before == camera.view_matrix.ops
              after == camera'.view_matrix.ops
              added == SubSeq(after, Len(before) + 1, Len(after))
              yaw == RotationsAbout(added, "y")
              pitch == RotationsAbout(added, "x")
              s == app.camera_controller.sensitivity
          IN  /\ Len(after) >= Len(before)
              /\ SubSeq(after, 1, Len(before)) = before
              /\ camera'.view_matrix.t = camera.view_matrix.t
              /\ Len(added) = Len(yaw) + Len(pitch)
              /\ (~F32Finite(dx) \/ F32IsZero(dx)) => yaw = <<>>
              /\ (~F32Finite(dy) \/ F32IsZero(dy)) => pitch = <<>>
              /\ (F32Finite(dx) /\ ~F32IsZero(dx)) =>
                     /\ Len(yaw) = 1
                     /\ yaw[1].angle = F32Mul(F32Neg(s), dx)
              /\ (F32Finite(dy) /\ ~F32IsZero(dy)) =>
                     /\ Len(pitch) = 1
                     /\ pitch[1].angle = F32Mul(s, dy)
              /\ ((~F32Finite(dx) \/ F32IsZero(dx)) /\ (~F32Finite(dy) \/ F32IsZero(dy)))
                     => camera' = camera]_vars

\* an infinite dx came with a finite dy: the camera has pitched and not yawed
C20_Witness ==
    /\ out.event = "process_mouse"
    /\ out.position[1] = F32Inf(0)
    /\ out.position[2] = F32FromInt(1)
    /\ Len(camera.view_matrix.ops) = 1
    /\ camera.view_matrix.ops[1].axis = "x"

\* the step imported an image
ImageImported(o) == o.event = "DroppedFile" /\ o.result = "Image"

\* C21: an image import of dimensions (W, H) appends exactly one entry to the
\* registry, whose texture is a new one allocated with size (W, H) and whose
\* recorded size is (W, H); nothing else changes the registry, so it lists the
\* imports in their order; selecting an index with no image behind it changes
\* nothing and does not end the program, and the selected index stays in range.
C21_OneTextureForEachImage ==
    [][LET before == app.textures
           after == app'.textures
           dims == <<out'.file.body.width, out'.file.body.height>>
       IN  /\ ImageImported(out') =>
                  /\ Len(after) = Len(before) + 1
                  /\ SubSeq(after, 1, Len(before)) = before
                  /\ after[Len(after)].size = dims
                  /\ after[Len(after)].texture.size = dims
                  /\ \A i \in 1..Len(before) :
                         before[i].texture.id # after[Len(after)].texture.id
           /\ ~ImageImported(out') => after = before
           /\ out'.event = "select_image" =>
                  /\ process' = process
                  /\ out'.position[1] >= Len(before) => app' = app
                  /\ app'.image_index < Len(after) \/ app'.image_index = 0]_vars

\* two images of different shapes are listed in the order they came, and an
\* index past them has just been selected
C21_Witness ==
    /\ Len(app.textures) = 2
    /\ app.textures[1].size = <<2, 3>>
    /\ app.textures[2].size = <<3, 2>>
    /\ app.textures[2].texture.size = <<3, 2>>
    /\ out.event = "select_image"
    /\ out.position = <<2>>
    /\ app.image_index = 1

\* the camera, the interface with its image registry, and the state with its
\* buffers
Application == <<camera, app, state>>

\* the application an import of the file leaves, begun from application a:
\* geometry is framed and uploaded, an image is registered, a file that does
\* not import changes nothing
AfterImport(a, file) ==
    LET r == import(file) IN
    CASE r.tag = "Ply" ->
           LET avg_pos  == avg_vertex_position(r.ply.point_vertices)
               avg_dist == avg_vertex_distance(avg_pos, r.ply.point_vertices)
           IN  << set_camera_facing(a[1], avg_pos, F32Mul(avg_dist, F32FromInt(5))),
                  set_camera_scale(a[2], avg_dist),
                  import_ply_data(a[3], r.ply) >>
      [] r.tag = "Image" -> <<a[1], import_image(a[2], r.img), a[3]>>
      [] OTHER -> a

\* the step loads the file given on the command line
ArgumentLoaded == out'.event = "Startup" /\ out'.file # NoFile

\* the step handles the first file dropped after a start with no argument
FirstDrop == out.event = "Startup" /\ out.file = NoFile /\ out'.event = "DroppedFile"

FlagOf(keycode) ==
    CASE keycode = "Space" -> "is_up_pressed"
      [] keycode = "LShift" -> "is_down_pressed"
      [] keycode \in {"W", "Up", "Comma"} -> "is_forward_pressed"
      [] keycode \in {"A", "Left"} -> "is_left_pressed"
      [] keycode \in {"S", "Down", "O"} -> "is_backward_pressed"
      [] keycode \in {"D", "Right", "E"} -> "is_right_pressed"
      [] keycode = "R" -> "is_counter_clock_pressed"
      [] keycode = "T" -> "is_clock_pressed"

HeldFlags == {FlagOf(k) : k \in MovementKeys}

\* the step is a key event the controller gets
KeyDelivered(o) == o.event = "KeyboardInput" /\ ~o.key.gui

\* C23: a press of a movement key sets its flag and a release clears it, the
\* rest of the controller (the other flags, speed, sensitivity) staying as it
\* was, and the event is reported handled; a key with no mapping changes
\* nothing and is reported unhandled; an update leaves the controller alone,
\* and a flag that is set is cleared by nothing but a release of its key.
C23_KeysSetAndClearFlags ==
    [][LET cc == app.camera_controller
           after == app'.camera_controller
           key == out'.key
       IN  /\ (KeyDelivered(out') /\ key.code \in MovementKeys) =>
                  /\ after = [cc EXCEPT ![FlagOf(key.code)] = key.is_pressed]
                  /\ key.handled
           /\ (KeyDelivered(out') /\ key.code \notin MovementKeys \cup {"Escape"}) =>
                  /\ after = cc
                  /\ ~key.handled
           /\ out'.event = "MainEventsCleared" => after = cc
           /\ \A flag \in HeldFlags :
                  (cc[flag] /\ ~after[flag]) =>
                      /\ KeyDelivered(out')
                      /\ ~key.is_pressed
                      /\ key.code \in MovementKeys
                      /\ FlagOf(key.code) = flag]_vars

\* W is down and stayed down through the update at the second tick of the
\* clock, which has moved the camera
C23_Witness ==
    /\ out.event = "MainEventsCleared"
    /\ app.camera_controller.is_forward_pressed
    /\ ~app.camera_controller.is_backward_pressed
    /\ last_update_time = 2 * TickMs
    /\ Len(camera.view_matrix.ops) = 0
    /\ camera.view_matrix.t # Vec3(0, 0, 0)

\* the cursor is grabbed exactly when the mouse is captured and visible
\* exactly when it is not
CursorFollowsCapture(cc, win) ==
    /\ win.cursor_grab = cc.mouse_captured
    /\ win.cursor_visible = ~cc.mouse_captured

\* C24: mouse_captured is flipped by a press of Escape and changed by nothing
\* else (so two presses in a row restore it); from the first flip on the
\* cursor is grabbed exactly when mouse_captured is true and visible exactly
\* when it is false.
C24_CaptureFollowsEscape ==
    [][LET cc == app.camera_controller
           after == app'.camera_controller
           toggles == /\ KeyDelivered(out')
                      /\ out'.key.code = "Escape"
                      /\ out'.key.is_pressed
       IN  /\ toggles => after.mouse_captured = ~cc.mouse_captured
           /\ ~toggles => after.mouse_captured = cc.mouse_captured
           /\ (toggles \/ CursorFollowsCapture(cc, window))
                  => CursorFollowsCapture(after, window')]_vars

\* the center of the window, where the cursor is put back
WindowCenter == <<window.inner_size[1] \div 2, window.inner_size[2] \div 2>>

RECURSIVE FirstReferences(_, _)
FirstReferences(faces, seen) ==
    IF faces = <<>> THEN seen
    ELSE IF Head(faces) = <<>> THEN FirstReferences(Tail(faces), seen)
    ELSE LET index == Head(Head(faces))
             rest == <<Tail(Head(faces))>> \o Tail(faces)
         IN  IF \E k \in 1..Len(seen) : seen[k] = index
             THEN FirstReferences(rest, seen)
             ELSE FirstReferences(rest, Append(seen, index))

\* the indices (from 0) of the file's vertices no face names, in file order
Unreferenced(vertices, referenced) ==
    SelectSeq([i \in 1..Len(vertices) |-> i - 1],
              LAMBDA index : \A k \in 1..Len(referenced) : referenced[k] # index)

\* C26: after a geometry import every vertex of the file is in exactly one of
\* the two lists: the vertices some face names (a face of fewer than three
\* indices too) are the face vertices, each index once; the others are the
\* point vertices, each once and in file order; the two lengths add up to the
\* number of vertices of the file.
C26_VerticesPartitioned ==
    GeometryImported =>
        LET vertices == out.file.body.vertices
            referenced == FirstReferences(out.file.body.faces, <<>>)
            others == Unreferenced(vertices, referenced)
            ply == imported.ply
        IN  /\ ply.face_vertices = [k \in 1..Len(referenced) |-> vertices[referenced[k] + 1]]
            /\ ply.point_vertices = [k \in 1..Len(others) |-> vertices[others[k] + 1]]
            /\ Len(ply.point_vertices) + Len(ply.face_vertices) = Len(vertices)
            /\ \A i \in 1..Len(vertices) :
                   Cardinality({k \in 1..Len(referenced) : referenced[k] = i - 1})
                     + Cardinality({k \in 1..Len(others) : others[k] = i - 1}) = 1

\* nine vertices, of which faces of five, three, two and one indices name
\* seven: the fourth and the sixth are the points
C26_Witness ==
    /\ GeometryImported
    /\ Len(out.file.body.vertices) = 9
    /\ imported.ply.point_vertices = <<Vertex(4, 0, 0), Vertex(6, 0, 0)>>
    /\ Len(imported.ply.face_vertices) = 7
    /\ imported.ply.face_vertices[7] = Vertex(2, 0, 0)

\* C27: the held flag of a direction is true in every state in which a key of
\* that direction is down.
C27_FlagWhileAnyKeyHeld ==
    \A k \in imported.held : app.camera_controller[FlagOf(k)]

\* C28: while the program runs and no resize of the window waits to be
\* handled, the interface's window_width is the window's inner width and its
\* window_height the inner height, from construction on.
C28_InterfaceKnowsWindowSize ==
    (process = "running" /\ ~resized_pending) =>
        /\ app.window_width = window.inner_size[1]
        /\ app.window_height = window.inner_size[2]

\* C29: MainEventsCleared integrates the camera once, over the time since the
\* update before it (since the start for the first), and sets
\* last_update_time to the time read; no other event of the loop moves
\* last_update_time or integrates, whatever becomes of the frames, so the
\* durations integrated add up to the time between the start and the last
\* update.
C29_UpdatesCoverTheTime ==
    [][process = "running" =>
          /\ out'.event = "MainEventsCleared" =>
                 /\ last_update_time' = clock
                 /\ camera' = update_camera(app.camera_controller, camera,
                                            clock - last_update_time)
                 /\ imported'.integrated
                       = imported.integrated + (clock - last_update_time)
          /\ out'.event # "MainEventsCleared" =>
                 /\ last_update_time' = last_update_time
                 /\ imported'.integrated = imported.integrated
          /\ imported'.integrated = last_update_time'
          /\ last_update_time' <= clock']_vars

\* W is down and no frame has been rendered; an update after one tick and an
\* update two ticks later have carried the camera forward: three ticks are
\* integrated
C29_Witness ==
    /\ out.event = "MainEventsCleared"
    /\ app.camera_controller.is_forward_pressed
    /\ imported.integrated = 3 * TickMs
    /\ last_render_time = 0
    /\ clock = 3 * TickMs
    /\ camera.view_matrix.t[3]
         = F32Add(F32Neg(F32Mul(as_secs_f32(TickMs), app.camera_controller.speed)),
                  F32Neg(F32Mul(as_secs_f32(2 * TickMs), app.camera_controller.speed)))

\* MainEventsCleared has just asked for a redraw
RedrawAsked(o) == o.event = "MainEventsCleared" /\ o.result = "request_redraw"

\* what C30 says of single steps: MainEventsCleared asks for a redraw exactly
\* when 15 ms or more have passed since last_render_time, which only a frame
\* rendered moves, to the time of the last update; with no key held the steps
\* of MainEventsCleared are those of UpdateDue
PacingSteps ==
    /\ out'.event = "MainEventsCleared" =>
           /\ RedrawAsked(out') <=> (clock - last_render_time >= 15)
           /\ RedrawAsked(out') => window'.redraw_requested
           /\ ~RedrawAsked(out') => window' = window
    /\ out'.event = "MainEventsCleared" <=> UpdateDue
    /\ FrameSubmitted' \/ last_render_time' = last_render_time \/ out'.event = "Startup"
    /\ (out'.event = "RedrawRequested" /\ out'.result = "Ok")
           => last_render_time' = last_update_time

\* the clock is at its last reading with fewer than 15 ms since last_render_time
TimeIsUp == clock + TickMs > MaxPacingClock /\ clock - last_render_time < 15

\* while the loop runs a redraw is asked for again, unless the loop ends or
\* the clock stops first
RedrawAskedAgain == Running ~> (RedrawAsked(out) \/ ~Running \/ TimeIsUp)

\* C30 as stated: the steps above; MainEventsCleared asks for no redraw until
\* 15 ms have passed since the last frame rendered; a redraw is asked for
\* again and again.
C30_NoRedrawFor15msAfterFrame ==
    /\ [][ /\ PacingSteps
           /\ (out'.event = "MainEventsCleared" /\ clock - imported.rendered_at < 15)
                  => ~RedrawAsked(out') ]_vars
    /\ RedrawAskedAgain

\* C30 amended: the 15 ms run from the update the last frame rendered came
\* after (last_render_time), which is the time of that frame or earlier; the
\* rest as stated.
C30_NoRedrawFor15msAfterUpdate ==
    /\ [][ /\ PacingSteps
           /\ (out'.event = "MainEventsCleared" /\ clock - last_render_time < 15)
                  => ~RedrawAsked(out')
           /\ last_render_time' <= imported'.rendered_at ]_vars
    /\ RedrawAskedAgain

\* a frame was rendered one tick after the update it shows, and a redraw is
\* asked for 15 ms after that update, which is 10 ms after the frame
C30_Witness ==
    /\ RedrawAsked(out)
    /\ last_render_time = TickMs
    /\ imported.rendered_at = 2 * TickMs
    /\ clock = last_render_time + 15

====
